---- MODULE Spec2Model ----
(***************************************************************************)
(* Model of the attention-stock classification engine                      *)
(* (src/attention/analysis.py, build_report), of the helpers it calls      *)
(* (src/attention/utils.py), of the parsers of the notice tables           *)
(* (src/attention/parse.py) and of the report run of the command line      *)
(* (src/attention/fetch.py, src/attention/cli.py).                          *)
(*                                                                         *)
(* Representation.                                                         *)
(*   date            <<year, month, day>>, ordered lexicographically as    *)
(*                   datetime.date is.                                      *)
(*   code            a sequence of one-character strings.                  *)
(*   info            the free text of a notice, as the sequence of its     *)
(*                   tokens: n in 1..13 stands for a clause token          *)
(*                   "di-n-kuan" (in either numeral form), 0 for any other *)
(*                   text.  The clause regular expressions are modelled as *)
(*                   searches over these tokens.                           *)
(*   earnings_month  the "YYYYMM" string, as the number year*100+month     *)
(*                   (what strftime("%Y%m") prints).                       *)
(*   reason          the list of reason strings that build_report joins    *)
(*                   with a separator; the strings are named in ASCII.     *)
(* The fields name, volume_multiplier, pct_change and tse_clause1 of a     *)
(* result take no part in the classification and are left out.             *)
(***************************************************************************)
EXTENDS Integers, Sequences, FiniteSets, TLC

VARIABLES
    rows,             \* argument rows of build_report
    records,          \* argument records: the ledger
    ref_date,         \* argument ref_date
    pc,               \* where build_report stands: "start", "loop" or "done"
    six_set,          \* the dates of the recency window
    tse_latest_date,  \* the latest date of a TSE row, or NoneDate
    grouped,          \* the groups, in insertion order: [key, items]
    gi,               \* the position of the loop in grouped
    results,          \* the AggregatedRows emitted so far
    fn,               \* the function of utils.py, parse.py, fetch.py or cli.py under study
    arg,              \* its argument
    loc,              \* its local variables
    ret               \* what it returned or raised, Pending while it runs

vars == <<rows, records, ref_date, pc, six_set, tse_latest_date, grouped, gi, results,
          fn, arg, loc, ret>>

\* the call frame of the functions around build_report
frame == <<fn, arg, loc, ret>>

inputs == <<rows, records, ref_date>>

(***************************************************************************)
(* Bounds of the explored inputs.                                          *)
(***************************************************************************)
MaxRows == 3

MaxRecords == 2

\* the largest count asked of get_latest_dates
MaxCount == 9

(***************************************************************************)
(* None values, one per type.                                              *)
(***************************************************************************)
NoneDate == <<>>

NoneMonth == 0

NoneType == "None"

(***************************************************************************)
(* datetime.date                                                            *)
(***************************************************************************)
DateLT(a, b) ==
    \/ a[1] < b[1]
    \/ a[1] = b[1] /\ a[2] < b[2]
    \/ a[1] = b[1] /\ a[2] = b[2] /\ a[3] < b[3]

DateGT(a, b) == DateLT(b, a)

IsLeap(y) == (y % 4 = 0 /\ y % 100 # 0) \/ y % 400 = 0

DaysInMonth(y, m) ==
    IF m = 2 THEN (IF IsLeap(y) THEN 29 ELSE 28)
    ELSE IF m \in {4, 6, 9, 11} THEN 30 ELSE 31

\* d.replace(day=1) - timedelta(days=1): the last day of the previous month
PrevMonthEnd(d) ==
    IF d[2] = 1 THEN <<d[1] - 1, 12, 31>>
    ELSE <<d[1], d[2] - 1, DaysInMonth(d[1], d[2] - 1)>>

\* d.strftime("%Y%m")
strftime_Ym(d) == d[1] * 100 + d[2]

this_month(ref) == strftime_Ym(ref)

last_month_date(ref) == PrevMonthEnd(ref)

last_month(ref) == strftime_Ym(last_month_date(ref))

month_before_last_date(ref) == PrevMonthEnd(last_month_date(ref))

month_before_last(ref) == strftime_Ym(month_before_last_date(ref))

month_3_date(ref) == PrevMonthEnd(month_before_last_date(ref))

month_3(ref) == strftime_Ym(month_3_date(ref))

(***************************************************************************)
(* utils.is_warrant                                                         *)
(***************************************************************************)
Digits == {"0", "1", "2", "3", "4", "5", "6", "7", "8", "9"}

\* ''.join(c for c in code if c.isdigit())
digits_of(code) == SelectSeq(code, LAMBDA c : c \in Digits)

\* variant: a code of exactly five digits passes
is_warrant_over_five(code) ==
    IF code = <<>> THEN FALSE
    ELSE Len(digits_of(code)) > 5

is_warrant(code) ==
    IF code = <<>> THEN FALSE
    ELSE Len(digits_of(code)) >= 5

(***************************************************************************)
(* Clause signals of a notice text                                         *)
(***************************************************************************)
has_clause_1_8(info) == \E i \in DOMAIN info : info[i] \in 1..8

has_clause_10(info) == \E i \in DOMAIN info : info[i] = 10

has_clause_9_13(info) == \E i \in DOMAIN info : info[i] \in 9..13

(***************************************************************************)
(* get_latest_dates                                                         *)
(***************************************************************************)
MinDate(S) == CHOOSE d \in S : \A e \in S : ~DateLT(e, d)

MaxDate(S) == CHOOSE d \in S : \A e \in S : ~DateLT(d, e)

RECURSIVE sorted_dates(_)
sorted_dates(S) ==
    IF S = {} THEN <<>>
    ELSE <<MinDate(S)>> \o sorted_dates(S \ {MinDate(S)})

SeqRange(s) == {s[i] : i \in DOMAIN s}

\* dates[-count:] of a list: its last count elements, all of it when count >= len
tail_slice(s, count) ==
    IF count >= Len(s) THEN s ELSE SubSeq(s, Len(s) - count + 1, Len(s))

\* get_latest_dates slicing dates[:count], the oldest dates
get_latest_dates_oldest(rws, count) ==
    LET dates == sorted_dates({rws[i].date : i \in DOMAIN rws})
    IN  IF dates = <<>> THEN <<>>
        ELSE IF count <= 0 THEN <<>>
        ELSE IF count >= Len(dates) THEN dates ELSE SubSeq(dates, 1, count)

get_latest_dates(rws, count) ==
    LET dates == sorted_dates({rws[i].date : i \in DOMAIN rws})
    IN  IF dates = <<>> THEN <<>>
        ELSE IF count <= 0 THEN <<>>
        ELSE tail_slice(dates, count)

WindowSize == 6

(***************************************************************************)
(* build_report: set-up                                                     *)
(***************************************************************************)
tse_latest(rws) ==
    LET tse_dates == {rws[i].date : i \in {j \in DOMAIN rws : rws[j].market = "TSE"}}
    IN  IF tse_dates = {} THEN NoneDate ELSE MaxDate(tse_dates)

KeyOf(row) == <<row.market, row.code>>

\* the keys of the dict "grouped", in insertion order
RECURSIVE group_keys(_)
\* one group per row: the keys as a list with repetitions
group_keys_per_row(rws) == [i \in DOMAIN rws |-> KeyOf(rws[i])]

group_keys(rws) ==
    IF rws = <<>> THEN <<>>
    ELSE LET init == group_keys(SubSeq(rws, 1, Len(rws) - 1))
             k    == KeyOf(rws[Len(rws)])
         IN  IF k \in SeqRange(init) THEN init ELSE Append(init, k)

\* variant: the rows of the key's market, whatever their code
items_of_market(rws, key) == SelectSeq(rws, LAMBDA r : r.market = key[1])

\* grouped[key]: the rows of the key, in input order
items_of(rws, key) == SelectSeq(rws, LAMBDA r : KeyOf(r) = key)

(***************************************************************************)
(* build_report: one group                                                  *)
(***************************************************************************)
\* the date of the first row of the group
last_date_of_first_row(items) == items[1].date

\* max(items, key=date).date
last_date_of(items) == MaxDate({items[i].date : i \in DOMAIN items})

should_count(market, item) ==
    IF market = "TSE" THEN ~has_clause_10(item.info) ELSE TRUE

\* variant: same-day rows counted once
count_of_distinct_days(market, items, six) ==
    Cardinality({items[i].date : i \in {j \in DOMAIN items :
                    items[j].date \in six /\ should_count(market, items[j])}})

count_of(market, items, six) ==
    Cardinality({i \in DOMAIN items :
                    items[i].date \in six /\ should_count(market, items[i])})

\* variant: a clause 1-8 row of any day counts
has_tse_clause_any_day(market, items, latest) ==
    /\ market = "TSE"
    /\ latest # NoneDate
    /\ \E i \in DOMAIN items : has_clause_1_8(items[i].info)

has_tse_clause_of(market, items, latest) ==
    /\ market = "TSE"
    /\ latest # NoneDate
    /\ \E i \in DOMAIN items : items[i].date = latest /\ has_clause_1_8(items[i].info)

has_tse_clause_9_13_of(market, items, latest) ==
    /\ market = "TSE"
    /\ latest # NoneDate
    /\ \E i \in DOMAIN items : items[i].date = latest /\ has_clause_9_13(items[i].info)

\* variant: the count rule applies to every market
trigger_reasons_any_market(market, count, has_tse_clause) ==
    (IF count >= 3 THEN <<"three-strikes-in-six-days">> ELSE <<>>)
    \o (IF market = "TSE" /\ has_tse_clause THEN <<"yesterday-clause-1-8">> ELSE <<>>)

trigger_reasons(market, count, has_tse_clause) ==
    (IF count >= 3 /\ market # "TSE" THEN <<"three-strikes-in-six-days">> ELSE <<>>)
    \o (IF market = "TSE" /\ has_tse_clause THEN <<"yesterday-clause-1-8">> ELSE <<>>)

(***************************************************************************)
(* build_report: the ledger cross-reference of one group                   *)
(***************************************************************************)
Remove(s, i) == SubSeq(s, 1, i - 1) \o SubSeq(s, i + 1, Len(s))

\* sorted(code_records, key=announcement_date, reverse=True); the sort is
\* stable, so records of one date keep their ledger order
RECURSIVE sort_newest_first(_)
sort_newest_first(s) ==
    IF s = <<>> THEN <<>>
    ELSE LET i == CHOOSE i \in DOMAIN s :
                    /\ \A j \in DOMAIN s :
                          ~DateLT(s[i].announcement_date, s[j].announcement_date)
                    /\ \A j \in 1..(i - 1) :
                          DateLT(s[j].announcement_date, s[i].announcement_date)
         IN  <<s[i]>> \o sort_newest_first(Remove(s, i))

\* records_by_code.get(code, []), then sorted newest first
code_records_of(recs, code) ==
    sort_newest_first(SelectSeq(recs, LAMBDA r : r.code = code))

is_future(record, ref) == DateGT(record.announcement_date, ref)

\* variant: the pre-check does not skip future announcements
has_last_month_earnings_any_date(code_records, ref) ==
    \E i \in DOMAIN code_records : code_records[i].earnings_month = last_month(ref)

has_last_month_earnings_of(code_records, ref) ==
    \E i \in DOMAIN code_records :
        /\ ~is_future(code_records[i], ref)
        /\ code_records[i].earnings_month = last_month(ref)

announced_in_month_of(record, d) ==
    /\ record.announcement_date[1] = d[1]
    /\ record.announcement_date[2] = d[2]

\* the index at which a "for ... if ...: break" loop stops, given the indices
\* at which its test holds; 0 when it runs out
FirstIndex(hits) ==
    IF hits = {} THEN 0 ELSE CHOOSE i \in hits : \A j \in hits : i <= j

\* the state of the loop body after "reasons" is known to be non-empty
rule_state(reasons) ==
    [reasons        |-> reasons,
     is_excluded    |-> FALSE,
     is_tagging     |-> FALSE,
     uncertain_type |-> NoneType,
     ann_date       |-> NoneDate,
     ann_month      |-> NoneMonth]

tagged_by(st, record, type, reason) ==
    [st EXCEPT !.is_tagging     = TRUE,
               !.uncertain_type = type,
               !.ann_date       = record.announcement_date,
               !.ann_month      = record.earnings_month,
               !.reasons        = Append(@, reason)]

excluded_by(st, record) ==
    [st EXCEPT !.is_excluded = TRUE,
               !.ann_date    = record.announcement_date,
               !.ann_month   = record.earnings_month]

\* variant: no Secondary-venue exception
rule_1_always_excludes(st, market, code_records, ref) ==
    LET i == FirstIndex({n \in DOMAIN code_records :
                            /\ ~is_future(code_records[n], ref)
                            /\ announced_in_month_of(code_records[n], ref)})
    IN  IF i = 0 THEN st ELSE excluded_by(st, code_records[i])

\* Rule 1: announced this month
rule_1(st, market, code_records, ref) ==
    LET i == FirstIndex({n \in DOMAIN code_records :
                            /\ ~is_future(code_records[n], ref)
                            /\ announced_in_month_of(code_records[n], ref)})
    IN  IF i = 0 THEN st
        ELSE IF /\ market = "OTC"
                /\ code_records[i].earnings_month = month_before_last(ref)
                /\ ~has_last_month_earnings_of(code_records, ref)
        THEN tagged_by(st, code_records[i], "otc-month-2-this-month",
                       "month-2-disclosed-this-month-last-month-outstanding")
        ELSE excluded_by(st, code_records[i])

\* Rule 2: announced last month
\* Rule 2 stopping at the first entry announced last month, whatever its
\* earnings month
rule_2_first_last_month_entry(st, market, code_records, ref) ==
    IF st.is_tagging THEN st
    ELSE LET i == FirstIndex({n \in DOMAIN code_records :
                     /\ ~is_future(code_records[n], ref)
                     /\ announced_in_month_of(code_records[n], last_month_date(ref))})
    IN  IF i = 0 THEN st
        ELSE IF code_records[i].earnings_month = month_3(ref)
        THEN tagged_by(st, code_records[i], "month-3", "month-3-disclosed-last-month")
        ELSE IF code_records[i].earnings_month # month_before_last(ref)
        THEN st
        ELSE IF market = "OTC" /\ ~has_last_month_earnings_of(code_records, ref)
        THEN tagged_by(st, code_records[i], "otc-month-2-last-month", "month-2-disclosed-last-month-last-month-outstanding")
        ELSE tagged_by(st, code_records[i], "month-2", "month-2-disclosed-last-month")

rule_2(st, market, code_records, ref) ==
    IF st.is_tagging THEN st
    ELSE
    LET i == FirstIndex({n \in DOMAIN code_records :
                            /\ ~is_future(code_records[n], ref)
                            /\ announced_in_month_of(code_records[n], last_month_date(ref))
                            /\ code_records[n].earnings_month
                                  \in {month_3(ref), month_before_last(ref)}})
    IN  IF i = 0 THEN st
        ELSE IF code_records[i].earnings_month = month_3(ref)
        THEN tagged_by(st, code_records[i], "month-3", "month-3-disclosed-last-month")
        ELSE IF market = "OTC" /\ ~has_last_month_earnings_of(code_records, ref)
        THEN tagged_by(st, code_records[i], "otc-month-2-last-month",
                       "month-2-disclosed-last-month-last-month-outstanding")
        ELSE tagged_by(st, code_records[i], "month-2", "month-2-disclosed-last-month")

\* variant: rule 3 does not look at what rules 1 and 2 found
rule_3_unguarded(st, market, count, has_tse_clause_9_13) ==
    IF market = "TSE" /\ count >= 3 /\ has_tse_clause_9_13
    THEN [st EXCEPT !.is_tagging     = TRUE,
                    !.uncertain_type = "tse-clause-9-13",
                    !.reasons        = Append(@, "tse-clause-9-13")]
    ELSE st

\* Rule 3: TSE with clause 9-13
rule_3(st, market, count, has_tse_clause_9_13) ==
    IF ~st.is_excluded /\ ~st.is_tagging
       /\ market = "TSE" /\ count >= 3 /\ has_tse_clause_9_13
    THEN [st EXCEPT !.is_tagging     = TRUE,
                    !.uncertain_type = "tse-clause-9-13",
                    !.reasons        = Append(@, "tse-clause-9-13")]
    ELSE st

(***************************************************************************)
(* build_report: the body of the loop over the groups                      *)
(***************************************************************************)
reasons_of(market, items, six, latest) ==
    trigger_reasons(market, count_of(market, items, six),
                    has_tse_clause_of(market, items, latest))

\* the loop state after rules 1, 2 and 3, for a group with trigger reasons
classified(market, code, items, six, latest, recs, ref) ==
    LET code_records == code_records_of(recs, code)
        st1 == rule_1(rule_state(reasons_of(market, items, six, latest)),
                      market, code_records, ref)
        st2 == rule_2(st1, market, code_records, ref)
    IN  rule_3(st2, market, count_of(market, items, six),
               has_tse_clause_9_13_of(market, items, latest))

\* variant: a group is dropped only when the ledger found nothing either
dropped_unless_ledger_hit(market, code, items, six, latest, recs, ref) ==
    LET code_records == code_records_of(recs, code)
        st == rule_2(rule_1(rule_state(reasons_of(market, items, six, latest)),
                            market, code_records, ref),
                     market, code_records, ref)
    IN  st.reasons = <<>> /\ ~st.is_tagging /\ ~st.is_excluded

\* the two "continue" statements that drop a group without a result
dropped(market, code, items, six, latest, recs, ref) ==
    \/ reasons_of(market, items, six, latest) = <<>>
    \/ LET st == classified(market, code, items, six, latest, recs, ref)
       IN  st.reasons = <<>> /\ ~st.is_tagging

AggregatedRow(market, code, items, six, latest, recs, ref) ==
    LET st == classified(market, code, items, six, latest, recs, ref)
    IN  [market              |-> market,
         code                |-> code,
         last_date           |-> last_date_of(items),
         reason              |-> st.reasons,
         is_excluded         |-> st.is_excluded,
         is_tagged           |-> st.is_tagging,
         uncertain_type      |-> st.uncertain_type,
         announced_date      |-> st.ann_date,
         announced_month     |-> st.ann_month,
         has_tse_clause_9_13 |-> has_tse_clause_9_13_of(market, items, latest)]

\* what one pass of the loop body adds to "results"
group_results(g, six, latest, recs, ref) ==
    IF is_warrant(g.key[2]) THEN <<>>
    ELSE IF dropped(g.key[1], g.key[2], g.items, six, latest, recs, ref) THEN <<>>
    ELSE <<AggregatedRow(g.key[1], g.key[2], g.items, six, latest, recs, ref)>>

grouped_of(rws) ==
    LET keys == group_keys(rws)
    IN  [i \in DOMAIN keys |-> [key |-> keys[i], items |-> items_of(rws, keys[i])]]

RECURSIVE loop_results(_, _, _, _, _)
loop_results(groups, six, latest, recs, ref) ==
    IF groups = <<>> THEN <<>>
    ELSE group_results(Head(groups), six, latest, recs, ref)
         \o loop_results(Tail(groups), six, latest, recs, ref)

\* build_report as a function of its arguments
build_report(rws, recs, ref) ==
    IF rws = <<>> THEN <<>>
    ELSE loop_results(grouped_of(rws), SeqRange(get_latest_dates(rws, WindowSize)),
                      tse_latest(rws), recs, ref)

(***************************************************************************)
(* The explored inputs                                                      *)
(***************************************************************************)
PlainCode == <<"2", "3", "3", "0">>

PreferredCode == <<"2", "8", "8", "1", "A">>

WarrantCode == <<"7", "0", "1", "2", "3", "P">>

Codes == {PlainCode, PreferredCode, WarrantCode}

FillCode == <<"6", "4", "8", "8">>

DOld == <<2026, 1, 2>>

DNew == <<2026, 1, 14>>

FillDays == <<5, 6, 7, 8, 9, 12>>

ARow(m, c, d, i) == [market |-> m, code |-> c, date |-> d, info |-> i]

\* six notices of another security on six days between DOld and DNew
Fill == [k \in DOMAIN FillDays |-> ARow("OTC", FillCode, <<2026, 1, FillDays[k]>>, <<0>>)]

Infos == {<<0>>, <<8>>, <<9>>, <<10>>}

\* the clause tokens are varied on TSE rows; the templates below carry them on
\* OTC rows as well
RowVals(c) ==
    {ARow("TSE", c, d, i) : d \in {DOld, DNew}, i \in Infos}
    \cup {ARow("OTC", c, d, <<0>>) : d \in {DOld, DNew}}

SeqsUpTo(S, n) == UNION {[1..k -> S] : k \in 0..n}

RichRows(c) == {f \o t : f \in SeqsUpTo(RowVals(c), MaxRows), t \in {<<>>, Fill}}

RowTemplates(c) ==
    { <<ARow("OTC", c, DNew, <<10>>), ARow("OTC", c, DNew, <<0>>), ARow("OTC", c, DOld, <<1, 9>>)>>,
      <<ARow("TSE", c, DNew, <<1>>)>>,
      <<ARow("TSE", c, DOld, <<0>>), ARow("TSE", c, DNew, <<8>>), ARow("TSE", c, DNew, <<0, 13>>)>>,
      <<ARow("OTC", c, DNew, <<0>>), ARow("TSE", c, DNew, <<1, 10>>), ARow("OTC", c, DNew, <<0>>),
        ARow("OTC", c, DOld, <<0>>)>>,
      Fill \o <<ARow("OTC", c, DNew, <<0>>), ARow("OTC", c, DNew, <<0>>), ARow("OTC", c, DNew, <<0>>)>>,
      <<ARow("TSE", c, <<2026, 1, 1>>, <<0>>), ARow("TSE", c, DOld, <<1>>)>> \o Fill
          \o <<ARow("OTC", c, DNew, <<0>>)>>,
      <<ARow("TSE", c, DOld, <<1>>), ARow("TSE", c, DOld, <<0>>), ARow("TSE", c, DOld, <<9>>),
        ARow("TSE", FillCode, DNew, <<8>>)>> }

ARecord(c, em, ad) == [code |-> c, earnings_month |-> em, announcement_date |-> ad]

\* a reference date, with the announcement dates and earnings months explored with it
January ==
    [ref    |-> <<2026, 1, 15>>,
     dates  |-> {<<2026, 1, 10>>, <<2026, 1, 15>>, <<2026, 1, 20>>, <<2025, 12, 10>>, <<2025, 1, 10>>},
     months |-> {202512, 202511, 202510},
     few    |-> {ARecord(PlainCode, 202511, <<2026, 1, 10>>)}]

March ==
    [ref    |-> <<2026, 3, 10>>,
     dates  |-> {<<2026, 3, 10>>, <<2026, 3, 11>>, <<2026, 2, 27>>},
     months |-> {202602, 202601, 202512},
     few    |-> {ARecord(PlainCode, 202601, <<2026, 3, 10>>)}]

Scenarios == {January, March}

RecVals(scn, c) ==
    {ARecord(c, em, ad) : em \in scn.months, ad \in scn.dates}
    \cup {ARecord(FillCode, em, scn.ref) : em \in {CHOOSE m \in scn.months : \A n \in scn.months : n <= m}}

RichLedgers(scn, c) == SeqsUpTo(RecVals(scn, c), MaxRecords)

LedgerTemplates(scn) == {<<>>} \cup {<<r>> : r \in scn.few}

(***************************************************************************)
(* The call frame: results and exceptions of the functions under study     *)
(***************************************************************************)
Pending == [kind |-> "pending"]

Returned(value) == [kind |-> "return", value |-> value]

Raised(error, message) == [kind |-> "raise", error |-> error, message |-> message]

\* a run of build_report alone: no other function is under study
NoFrame ==
    /\ fn = "build_report"
    /\ arg = <<>>
    /\ loc = <<>>
    /\ ret = Pending

(***************************************************************************)
(* The run of build_report                                                  *)
(***************************************************************************)
Init ==
    /\ \/ /\ rows \in RichRows(PlainCode)
          /\ records \in LedgerTemplates(January)
          /\ ref_date = January.ref
       \/ \E c \in Codes, scn \in Scenarios :
             /\ rows \in RowTemplates(c)
             /\ records \in RichLedgers(scn, c)
             /\ ref_date = scn.ref
    /\ pc = "start"
    /\ six_set = {}
    /\ tse_latest_date = NoneDate
    /\ grouped = <<>>
    /\ gi = 0
    /\ results = <<>>
    /\ NoFrame

\* if not rows: return []
ReturnEmpty ==
    /\ pc = "start"
    /\ rows = <<>>
    /\ pc' = "done"
    /\ UNCHANGED <<inputs, six_set, tse_latest_date, grouped, gi, results, frame>>

\* the set-up sorting the ledger it was given in place
Prepare_sorting_the_ledger ==
    /\ pc = "start"
    /\ rows # <<>>
    /\ records' = sort_newest_first(records)
    /\ six_set' = SeqRange(get_latest_dates(rows, WindowSize))
    /\ tse_latest_date' = tse_latest(rows)
    /\ grouped' = grouped_of(rows)
    /\ gi' = 1
    /\ pc' = "loop"
    /\ UNCHANGED <<rows, ref_date, results, frame>>

\* the set-up before the loop over the groups
Prepare ==
    /\ pc = "start"
    /\ rows # <<>>
    /\ six_set' = SeqRange(get_latest_dates(rows, WindowSize))
    /\ tse_latest_date' = tse_latest(rows)
    /\ grouped' = grouped_of(rows)
    /\ gi' = 1
    /\ pc' = "loop"
    /\ UNCHANGED <<inputs, results, frame>>

\* the loop guard leaving the last group unreachable
InLoop_before_last == pc = "loop" /\ gi \in 1 .. (Len(grouped) - 1)

InLoop == pc = "loop" /\ gi \in DOMAIN grouped

\* if is_warrant(code): continue
SkipWarrant ==
    /\ InLoop
    /\ is_warrant(grouped[gi].key[2])
    /\ gi' = gi + 1
    /\ UNCHANGED <<inputs, pc, six_set, tse_latest_date, grouped, results, frame>>

\* if not reasons: continue
DropGroup ==
    /\ InLoop
    /\ ~is_warrant(grouped[gi].key[2])
    /\ dropped(grouped[gi].key[1], grouped[gi].key[2], grouped[gi].items,
               six_set, tse_latest_date, records, ref_date)
    /\ gi' = gi + 1
    /\ UNCHANGED <<inputs, pc, six_set, tse_latest_date, grouped, results, frame>>

\* results.append(AggregatedRow(...))
EmitRow ==
    /\ InLoop
    /\ ~is_warrant(grouped[gi].key[2])
    /\ ~dropped(grouped[gi].key[1], grouped[gi].key[2], grouped[gi].items,
                six_set, tse_latest_date, records, ref_date)
    /\ results' = Append(results,
                         AggregatedRow(grouped[gi].key[1], grouped[gi].key[2], grouped[gi].items,
                                       six_set, tse_latest_date, records, ref_date))
    /\ gi' = gi + 1
    /\ UNCHANGED <<inputs, pc, six_set, tse_latest_date, grouped, frame>>

\* return results
Return ==
    /\ pc = "loop"
    /\ gi > Len(grouped)
    /\ pc' = "done"
    /\ UNCHANGED <<inputs, six_set, tse_latest_date, grouped, gi, results, frame>>

Next == ReturnEmpty \/ Prepare \/ SkipWarrant \/ DropGroup \/ EmitRow \/ Return

Spec == Init /\ [][Next]_vars

\* The same run with the call as its first step: the caller, not yet in
\* build_report, passes its arguments.  The arguments vary the groups the
\* loop runs over: rows of up to three codes on both markets, a warrant
\* among them, with and without a trigger reason.
Idle ==
    /\ rows = <<>>
    /\ records = <<>>
    /\ ref_date = January.ref
    /\ pc = "idle"
    /\ six_set = {}
    /\ tse_latest_date = NoneDate
    /\ grouped = <<>>
    /\ gi = 0
    /\ results = <<>>

CallRowVals ==
    {ARow("TSE", PlainCode, DNew, <<8>>), ARow("TSE", PlainCode, DOld, <<0>>),
     ARow("OTC", PlainCode, DNew, <<0>>), ARow("OTC", WarrantCode, DNew, <<0>>),
     ARow("TSE", PreferredCode, DNew, <<1>>)}

Call ==
    /\ pc = "idle"
    /\ rows' \in SeqsUpTo(CallRowVals, MaxRows)
    /\ \E scn \in Scenarios :
          /\ records' \in LedgerTemplates(scn)
          /\ ref_date' = scn.ref
    /\ pc' = "start"
    /\ UNCHANGED <<six_set, tse_latest_date, grouped, gi, results, frame>>

CallNext == Call \/ ReturnEmpty \/ Prepare \/ SkipWarrant \/ DropGroup \/ EmitRow \/ Return

\* build_report is one sequential call: a step that can be taken is taken
CallInit == Idle /\ NoFrame

FairSpec == CallInit /\ [][CallNext]_vars /\ WF_vars(CallNext)

(***************************************************************************)
(* utils.py.  A text is a sequence of characters, each a string; the       *)
(* whitespace characters other than the blank carry their names.  The      *)
(* explored texts hold no sign and no underscore, which int() would take,  *)
(* and are never None.                                                      *)
(***************************************************************************)
report == <<rows, records, ref_date, pc, six_set, tse_latest_date, grouped, gi, results>>

\* the characters \s matches and strip() strips
Whitespace == {" ", "TAB", "CR", "LF", "NBSP", "IDSP"}

\* re.sub(r"\s+", "", text)
normalize_header(text) == SelectSeq(text, LAMBDA ch : ch \notin Whitespace)

RECURSIVE lstrip(_)
lstrip(text) ==
    IF text # <<>> /\ Head(text) \in Whitespace THEN lstrip(Tail(text)) ELSE text

RECURSIVE rstrip(_)
rstrip(text) ==
    IF text # <<>> /\ text[Len(text)] \in Whitespace
    THEN rstrip(SubSeq(text, 1, Len(text) - 1))
    ELSE text

strip(text) == rstrip(lstrip(text))

\* the replace calls and _WHITESPACE_RE.sub(" ", value): every run of
\* whitespace becomes one blank
RECURSIVE collapse(_)
collapse(text) ==
    IF text = <<>> THEN <<>>
    ELSE IF Head(text) \in Whitespace THEN <<" ">> \o collapse(lstrip(text))
    ELSE <<Head(text)>> \o collapse(Tail(text))

clean_text(text) == strip(collapse(text))

startswith(text, prefix) ==
    Len(text) >= Len(prefix) /\ SubSeq(text, 1, Len(prefix)) = prefix

endswith(text, suffix) ==
    Len(text) >= Len(suffix) /\ SubSeq(text, Len(text) - Len(suffix) + 1, Len(text)) = suffix

clean_cell(value) ==
    LET text == strip(value)
    IN  IF startswith(text, <<"=", "QUOTE">>) /\ endswith(text, <<"QUOTE">>)
        THEN clean_text(SubSeq(text, 3, Len(text) - 1))
        ELSE clean_text(text)

\* text.replace(old, new) for single characters
replace(text, old, new) == [i \in DOMAIN text |-> IF text[i] = old THEN new ELSE text[i]]

\* text.split(sep)
RECURSIVE split(_, _)
split(text, sep) ==
    LET hits == {i \in DOMAIN text : text[i] = sep}
    IN  IF hits = {} THEN <<text>>
        ELSE LET i == CHOOSE h \in hits : \A g \in hits : h <= g
             IN  <<SubSeq(text, 1, i - 1)>> \o split(SubSeq(text, i + 1, Len(text)), sep)

DigitChars == <<"0", "1", "2", "3", "4", "5", "6", "7", "8", "9">>

DigitValue(ch) == (CHOOSE n \in DOMAIN DigitChars : DigitChars[n] = ch) - 1

RECURSIVE decimal(_)
decimal(digits) ==
    IF digits = <<>> THEN 0
    ELSE 10 * decimal(SubSeq(digits, 1, Len(digits) - 1)) + DigitValue(digits[Len(digits)])

\* int(text) accepts the digits with whitespace around them
int_accepts(text) ==
    /\ strip(text) # <<>>
    /\ \A i \in DOMAIN strip(text) : strip(text)[i] \in Digits

int(text) == decimal(strip(text))

MINYEAR == 1

MAXYEAR == 9999

\* datetime.date(year, month, day)
date(year, month, day) ==
    IF year < MINYEAR \/ year > MAXYEAR
    THEN Raised("ValueError", "year is out of range")
    ELSE IF month < 1 \/ month > 12
    THEN Raised("ValueError", "month must be in 1..12")
    ELSE IF day < 1 \/ day > DaysInMonth(year, month)
    THEN Raised("ValueError", "day is out of range for month")
    ELSE Returned(<<year, month, day>>)

\* variant: an empty part counts as a part
parse_roc_date_keeping_empty_parts(value) ==
    LET text  == replace(clean_text(value), ".", "/")
        parts == split(text, "/")
    IN  IF Len(parts) # 3 THEN Raised("ValueError", "Unexpected ROC date format")
        ELSE IF \E k \in 1..3 : ~int_accepts(parts[k])
        THEN Raised("ValueError", "invalid literal for int()")
        ELSE date(int(parts[1]) + 1911, int(parts[2]), int(parts[3]))

parse_roc_date(value) ==
    LET text  == replace(clean_text(value), ".", "/")
        parts == SelectSeq(split(text, "/"), LAMBDA part : part # <<>>)
    IN  IF Len(parts) # 3 THEN Raised("ValueError", "Unexpected ROC date format")
        ELSE IF \E k \in 1..3 : ~int_accepts(parts[k])
        THEN Raised("ValueError", "invalid literal for int()")
        ELSE date(int(parts[1]) + 1911, int(parts[2]), int(parts[3]))

(***************************************************************************)
(* parse.py: _expand_table.  A cell is [text, rowspan, colspan]; the       *)
(* buffer rowspans holds one entry per column, NoSpan standing for None.   *)
(* Column indices count from 0 as in the code; sequences count from 1.     *)
(***************************************************************************)
NoSpan == [text |-> <<>>, rowspan |-> 0]

ACell(text, rowspan, colspan) == [text |-> text, rowspan |-> rowspan, colspan |-> colspan]

\* value or 1
or_one(value) == IF value = 0 THEN 1 ELSE value

\* the state of one pass of the loop over the rows: out, col_idx, rowspans
row_state(rowspans) == [out |-> <<>>, col_idx |-> 0, rowspans |-> rowspans]

RECURSIVE fill_rowspans(_)
fill_rowspans(st) ==
    IF st.col_idx < Len(st.rowspans) /\ st.rowspans[st.col_idx + 1] # NoSpan
    THEN LET span == st.rowspans[st.col_idx + 1]
         IN  fill_rowspans(
                 [out      |-> Append(st.out, span.text),
                  col_idx  |-> st.col_idx + 1,
                  rowspans |-> [st.rowspans EXCEPT ![st.col_idx + 1] =
                                   IF span.rowspan - 1 <= 0 THEN NoSpan
                                   ELSE [span EXCEPT !.rowspan = span.rowspan - 1]]])
    ELSE st

\* rowspans.extend([None] * (col_idx - len(rowspans) + 1))
extended(rowspans, col_idx) ==
    IF col_idx >= Len(rowspans)
    THEN rowspans \o [k \in 1 .. (col_idx - Len(rowspans) + 1) |-> NoSpan]
    ELSE rowspans

\* for span_index in range(colspan), from span_index on
RECURSIVE place_cell(_, _, _, _, _)
place_cell(st, text, rowspan, colspan, span_index) ==
    IF span_index >= colspan THEN st
    ELSE place_cell(
             [out      |-> Append(st.out, IF span_index = 0 THEN text ELSE <<>>),
              col_idx  |-> st.col_idx + 1,
              rowspans |-> IF rowspan > 1
                           THEN [extended(st.rowspans, st.col_idx) EXCEPT ![st.col_idx + 1] =
                                    [text |-> text, rowspan |-> rowspan - 1]]
                           ELSE st.rowspans],
             text, rowspan, colspan, span_index + 1)

\* for cell in row, from the i-th cell on
RECURSIVE cells_loop(_, _, _)
cells_loop(st, row, i) ==
    IF i > Len(row) THEN st
    ELSE cells_loop(place_cell(fill_rowspans(st), clean_text(row[i].text),
                               or_one(row[i].rowspan), or_one(row[i].colspan), 0),
                    row, i + 1)

\* one pass of "for row in rows": the row's out and the buffer it leaves
expand_row(row, rowspans) == fill_rowspans(cells_loop(row_state(rowspans), row, 1))

\* the loop from row i on, with what is expanded so far
RECURSIVE rows_loop(_, _, _, _)
rows_loop(rws, i, expanded, rowspans) ==
    IF i > Len(rws) THEN expanded
    ELSE LET st == expand_row(rws[i], rowspans)
         IN  rows_loop(rws, i + 1, Append(expanded, st.out), st.rowspans)

expand_table(rws) == rows_loop(rws, 1, <<>>, <<>>)

(***************************************************************************)
(* parse.py: _find_header_row, _parse_table_rows, _parse_csv, parse_html.  *)
(* The labels are spelled character by character, each character by the   *)
(* name of its reading.                                                     *)
(***************************************************************************)
CodeLabel == <<"zheng", "quan", "dai", "hao">>

NameLabel == <<"zheng", "quan", "ming", "cheng">>

InfoLabel == <<"zhu", "yi", "jiao", "yi4", "zi", "xun">>

DateLabel == <<"ri", "qi">>

AnnDateLabel == <<"gong", "gao", "ri", "qi">>

required == {CodeLabel, NameLabel, InfoLabel}

NoneIndex == -1

FirstOf(hits) == IF hits = {} THEN NoneIndex ELSE CHOOSE i \in hits : \A j \in hits : i <= j

is_header(row) == required \subseteq {normalize_header(row[i]) : i \in DOMAIN row}

\* the search keeping the last row that carries the labels
find_header_row_last(rws) ==
    LET hits == {idx \in DOMAIN rws : is_header(rws[idx])}
    IN  IF hits = {} THEN NoneIndex
        ELSE (CHOOSE i \in hits : \A j \in hits : j <= i) - 1

\* the index of the header row, counted from 0, or NoneIndex
find_header_row(rws) ==
    LET first == FirstOf({idx \in DOMAIN rws : is_header(rws[idx])})
    IN  IF first = NoneIndex THEN NoneIndex ELSE first - 1

\* headers.index(name), counted from 0, or NoneIndex
index_of(headers, name) ==
    LET first == FirstOf({i \in DOMAIN headers : headers[i] = name})
    IN  IF first = NoneIndex THEN NoneIndex ELSE first - 1

\* a or b on two results of index_of: 0 is falsy, as None is
index_or(a, b) == IF a = NoneIndex \/ a = 0 THEN b ELSE a

date_index_of(headers) == index_or(index_of(headers, DateLabel), index_of(headers, AnnDateLabel))

AttentionRow(market, code, name, parsed_date, info) ==
    [market |-> market, code |-> code, name |-> name, date |-> parsed_date, info |-> info]

Max(S) == CHOOSE n \in S : \A m \in S : m <= n

\* the loop body without its test of the code cell
parsed_of_keeping_empty_code(row, market, code_idx, name_idx, info_idx, date_idx) ==
    IF Len(row) <= Max({code_idx, name_idx, info_idx, date_idx}) THEN <<>>
    ELSE LET parsed_date == parse_roc_date(clean_cell(row[date_idx + 1]))
         IN  IF parsed_date.kind = "raise" THEN <<>>
             ELSE <<AttentionRow(market, clean_cell(row[code_idx + 1]),
                                 clean_cell(row[name_idx + 1]), parsed_date.value,
                                 clean_text(row[info_idx + 1]))>>

\* the body of "for row in rows[header_idx + 1:]": the rows it appends
parsed_of(row, market, code_idx, name_idx, info_idx, date_idx) ==
    IF Len(row) <= Max({code_idx, name_idx, info_idx, date_idx}) THEN <<>>
    ELSE IF clean_cell(row[code_idx + 1]) = <<>> THEN <<>>
    ELSE LET parsed_date == parse_roc_date(clean_cell(row[date_idx + 1]))
         IN  IF parsed_date.kind = "raise" THEN <<>>
             ELSE <<AttentionRow(market, clean_cell(row[code_idx + 1]),
                                 clean_cell(row[name_idx + 1]), parsed_date.value,
                                 clean_text(row[info_idx + 1]))>>

RECURSIVE data_rows_loop(_, _, _, _, _, _, _)
data_rows_loop(rws, i, market, code_idx, name_idx, info_idx, date_idx) ==
    IF i > Len(rws) THEN <<>>
    ELSE parsed_of(rws[i], market, code_idx, name_idx, info_idx, date_idx)
         \o data_rows_loop(rws, i + 1, market, code_idx, name_idx, info_idx, date_idx)

\* the two parsers differ in their messages only, once the rows are at hand
parse_rows(rws, market, no_header, no_columns) ==
    LET header_idx == find_header_row(rws)
    IN  IF header_idx = NoneIndex THEN Raised("ValueError", no_header)
        ELSE LET headers  == [i \in DOMAIN rws[header_idx + 1] |->
                                 normalize_header(rws[header_idx + 1][i])]
                 code_idx == index_of(headers, CodeLabel)
                 name_idx == index_of(headers, NameLabel)
                 info_idx == index_of(headers, InfoLabel)
                 date_idx == date_index_of(headers)
             IN  IF NoneIndex \in {code_idx, name_idx, info_idx, date_idx}
                 THEN Raised("ValueError", no_columns)
                 ELSE Returned(data_rows_loop(rws, header_idx + 2, market,
                                              code_idx, name_idx, info_idx, date_idx))

parse_table_rows(rws, market) ==
    parse_rows(rws, market, "Unable to locate header row", "Missing required columns")

\* the rows csv.reader yields, those with a non-blank cell
non_blank(rws) == SelectSeq(rws, LAMBDA row : \E i \in DOMAIN row : strip(row[i]) # <<>>)

\* the CSV path taking its first line for a title
parse_csv_after_first_line(rws, market) ==
    parse_rows(non_blank(IF rws = <<>> THEN rws ELSE Tail(rws)), market,
               "Unable to locate CSV header row", "Missing required CSV columns")

parse_csv(rws, market) ==
    parse_rows(non_blank(rws), market,
               "Unable to locate CSV header row", "Missing required CSV columns")

\* parse_html from the tables the parser recorded: the loop from table i on
RECURSIVE tables_loop(_, _, _)
tables_loop(tables, i, market) ==
    IF i > Len(tables) THEN Raised("ValueError", "No suitable HTML table found")
    ELSE LET parsed == parse_table_rows(expand_table(tables[i]), market)
         IN  IF parsed.kind = "raise" THEN tables_loop(tables, i + 1, market)
             ELSE parsed

parse_html(tables, market) == tables_loop(tables, 1, market)

(***************************************************************************)
(* The calls of parse_roc_date: every text of up to MaxValueLen characters *)
(* of DateChars, and some longer ones.                                     *)
(***************************************************************************)
MaxValueLen == 6

DateChars == {"1", "3", "/", ".", "x"}

LongDateTexts ==
    { <<"1", "1", "3", "/", "0", "1", "/", "1", "5">>,
      <<"1", "1", "3", ".", "0", "1", ".", "1", "5">>,
      <<"1", "1", "3", "/", "/", "0", "1", "/", "1", "5">>,
      <<"/", "1", "1", "3", "/", "0", "1", "/", "1", "5", "/">>,
      <<" ", "1", "1", "3", "/", "0", "1", "/", "1", "5", "LF">>,
      <<"1", "1", "3", " ", "/", "NBSP", " ", "0", "1", "/", "1", "5">>,
      <<"1", "1", " ", "3", "/", "0", "1", "/", "1", "5">>,
      <<"1", "1", "3", "/", "0", "2", "/", "2", "9">>,
      <<"1", "1", "4", "/", "0", "2", "/", "2", "9">>,
      <<"1", "1", "3", "/", "0", "0", "/", "1", "5">>,
      <<"8", "0", "8", "9", "/", "1", "/", "1">>,
      <<"1", "1", "3", "/", "0", "1", "/", "1", "5", "/", "2">> }

DateTexts == SeqsUpTo(DateChars, MaxValueLen) \cup LongDateTexts

DateInit ==
    /\ Idle
    /\ fn = "parse_roc_date"
    /\ arg \in DateTexts
    /\ loc = <<>>
    /\ ret = Pending

ParseRocDate ==
    /\ fn = "parse_roc_date"
    /\ ret = Pending
    /\ ret' = parse_roc_date(arg)
    /\ UNCHANGED <<report, fn, arg, loc>>

DateNext == ParseRocDate

DateSpec == DateInit /\ [][DateNext]_vars

(***************************************************************************)
(* The calls of _parse_table_rows and _parse_csv: a header row of up to    *)
(* MaxHeaderLen labels, possibly after a blank row, and one data row whose *)
(* k-th cell reads 1/1/k, so that the date of the parsed row tells which   *)
(* column was read as the date.                                            *)
(***************************************************************************)
MaxHeaderLen == 5

OtherLabel == <<"x">>

SpacedDateLabel == <<"ri", " ", "qi">>

HeaderLabels == {CodeLabel, NameLabel, InfoLabel, DateLabel, AnnDateLabel, OtherLabel, SpacedDateLabel}

Headers == UNION {[1..k -> HeaderLabels] : k \in 3..MaxHeaderLen}

DigitOf(k) == <<"1", "2", "3", "4", "5", "6", "7", "8", "9">>[k]

DataRow(n) == [k \in 1..n |-> <<"1", "/", "1", "/", DigitOf(k)>>]

BlankRow == <<<<>>, <<" ">>>>

Grids == {lead \o <<header, DataRow(Len(header))>> : lead \in {<<>>, <<BlankRow>>}, header \in Headers}

RowsInit ==
    /\ Idle
    /\ fn \in {"_parse_table_rows", "_parse_csv"}
    /\ arg \in {[rows |-> grid, market |-> "TSE"] : grid \in Grids}
    /\ loc = <<>>
    /\ ret = Pending

ParseTableRows ==
    /\ fn = "_parse_table_rows"
    /\ ret = Pending
    /\ ret' = parse_table_rows(arg.rows, arg.market)
    /\ UNCHANGED <<report, fn, arg, loc>>

ParseCsv ==
    /\ fn = "_parse_csv"
    /\ ret = Pending
    /\ ret' = parse_csv(arg.rows, arg.market)
    /\ UNCHANGED <<report, fn, arg, loc>>

RowsNext == ParseTableRows \/ ParseCsv

RowsSpec == RowsInit /\ [][RowsNext]_vars

(***************************************************************************)
(* The calls of parse_html, from the tables the parser recorded (each has  *)
(* at least one row): the loop over the tables, one table per step, with   *)
(* loc.ti the number of tables already tried.  Every table carries its own *)
(* security code in its data rows.                                         *)
(***************************************************************************)
MaxTables == 3

Plain(text) == ACell(text, 1, 1)

HeaderCells(labels) == [i \in DOMAIN labels |-> Plain(labels[i])]

ADate == <<"1", "1", "3", "/", "0", "1", "/", "1", "5">>

BDate == <<"1", "1", "3", ".", "0", "1", ".", "1", "6">>

NoHeaderTable == <<<<Plain(<<"x">>), Plain(<<"y">>)>>>>

NoDateTable ==
    << HeaderCells(<<CodeLabel, NameLabel, InfoLabel>>),
       <<Plain(<<"1">>), Plain(<<"n">>), Plain(<<"i">>)>> >>

GoodTable ==
    << HeaderCells(<<CodeLabel, NameLabel, DateLabel, InfoLabel>>),
       <<Plain(<<"2">>), Plain(<<"n">>), Plain(ADate), Plain(<<"i">>)>> >>

AnnouncedTable ==
    << HeaderCells(<<CodeLabel, NameLabel, InfoLabel, AnnDateLabel>>),
       <<Plain(<<"3">>), Plain(<<"n">>), Plain(<<"i">>), Plain(BDate)>> >>

HeaderOnlyTable == <<HeaderCells(<<CodeLabel, NameLabel, InfoLabel, DateLabel>>)>>

DateFirstTable ==
    << HeaderCells(<<DateLabel, CodeLabel, NameLabel, InfoLabel>>),
       <<Plain(ADate), Plain(<<"4">>), Plain(<<"n">>), Plain(<<"i">>)>> >>

DateFirstAnnouncedTable ==
    << HeaderCells(<<DateLabel, CodeLabel, NameLabel, InfoLabel, AnnDateLabel>>),
       <<Plain(ADate), Plain(<<"5">>), Plain(<<"n">>), Plain(<<"i">>), Plain(BDate)>> >>

TitledTable ==
    << <<ACell(<<"t">>, 1, 4)>>,
       HeaderCells(<<CodeLabel, SpacedDateLabel, NameLabel, InfoLabel>>),
       <<Plain(<<"6">>), Plain(BDate), Plain(<<"n">>), Plain(<<"i">>)>> >>

TallCodeTable ==
    << HeaderCells(<<CodeLabel, NameLabel, DateLabel, InfoLabel>>),
       <<ACell(<<"7">>, 2, 1), Plain(<<"n">>), Plain(ADate), Plain(<<"i">>)>>,
       <<Plain(<<"n">>), Plain(BDate), Plain(<<"i">>)>> >>

TableTemplates ==
    { NoHeaderTable, NoDateTable, GoodTable, AnnouncedTable, HeaderOnlyTable,
      DateFirstTable, DateFirstAnnouncedTable, TitledTable, TallCodeTable }

HtmlInit ==
    /\ Idle
    /\ fn = "parse_html"
    /\ arg \in {[tables |-> tables, market |-> "OTC"] : tables \in SeqsUpTo(TableTemplates, MaxTables)}
    /\ loc = [ti |-> 0]
    /\ ret = Pending

\* the table at hand
table_at == arg.tables[loc.ti + 1]

\* except ValueError: continue
TableSkipped ==
    /\ fn = "parse_html"
    /\ ret = Pending
    /\ loc.ti < Len(arg.tables)
    /\ parse_table_rows(expand_table(table_at), arg.market).kind = "raise"
    /\ loc' = [ti |-> loc.ti + 1]
    /\ UNCHANGED <<report, fn, arg, ret>>

\* return _parse_table_rows(expanded, market)
TableParsed ==
    /\ fn = "parse_html"
    /\ ret = Pending
    /\ loc.ti < Len(arg.tables)
    /\ parse_table_rows(expand_table(table_at), arg.market).kind = "return"
    /\ ret' = parse_table_rows(expand_table(table_at), arg.market)
    /\ UNCHANGED <<report, fn, arg, loc>>

\* raise ValueError("No suitable HTML table found")
NoSuitableTable ==
    /\ fn = "parse_html"
    /\ ret = Pending
    /\ loc.ti = Len(arg.tables)
    /\ ret' = Raised("ValueError", "No suitable HTML table found")
    /\ UNCHANGED <<report, fn, arg, loc>>

HtmlNext == TableSkipped \/ TableParsed \/ NoSuitableTable

HtmlSpec == HtmlInit /\ [][HtmlNext]_vars

(***************************************************************************)
(* The calls of _expand_table: tables of up to MaxTableRows rows of up to  *)
(* MaxCells cells, every cell with a text of its own; a cell is plain,     *)
(* two or three rows tall, or two columns wide.  The loop over the rows   *)
(* takes one step per row: loc holds expanded, rowspans and the number ri  *)
(* of rows done.                                                           *)
(***************************************************************************)
MaxTableRows == 3

MaxCells == 2

Letters == <<"a", "b", "c", "d", "e", "f", "g", "h", "i", "j", "k", "l">>

\* the text of the i-th cell of row r
TextAt(r, i) == <<Letters[MaxCells * (r - 1) + i]>>

CellShapes == {<<1, 1>>, <<2, 1>>, <<3, 1>>, <<1, 2>>, <<2, 2>>}

RowShapes == SeqsUpTo(CellShapes, MaxCells)

TableShapes == UNION {[1..n -> RowShapes] : n \in 1..MaxTableRows}

TableOf(shape) ==
    [r \in DOMAIN shape |->
        [i \in DOMAIN shape[r] |-> ACell(TextAt(r, i), shape[r][i][1], shape[r][i][2])]]

ExpandInit ==
    /\ Idle
    /\ fn = "_expand_table"
    /\ arg \in {TableOf(shape) : shape \in TableShapes}
    /\ loc = [expanded |-> <<>>, rowspans |-> <<>>, ri |-> 0]
    /\ ret = Pending

\* one pass of "for row in rows"
ExpandRow ==
    /\ fn = "_expand_table"
    /\ ret = Pending
    /\ loc.ri < Len(arg)
    /\ LET st == expand_row(arg[loc.ri + 1], loc.rowspans)
       IN  loc' = [expanded |-> Append(loc.expanded, st.out),
                   rowspans |-> st.rowspans,
                   ri       |-> loc.ri + 1]
    /\ UNCHANGED <<report, fn, arg, ret>>

\* return expanded
ExpandReturn ==
    /\ fn = "_expand_table"
    /\ ret = Pending
    /\ loc.ri = Len(arg)
    /\ ret' = Returned(loc.expanded)
    /\ UNCHANGED <<report, fn, arg, loc>>

ExpandNext == ExpandRow \/ ExpandReturn

ExpandSpec == ExpandInit /\ [][ExpandNext]_vars

(***************************************************************************)
(* fetch.py and cli.py: the report run of main (neither --add nor --weps). *)
(* The outcome of each source of a venue, CSV and HTML, is an argument of  *)
(* the run: the fetch raised, or it returned rows, possibly none.  loc     *)
(* holds the place of main (at), the fetch result (rows, warnings), the    *)
(* hard messages on stderr (err), the rows of the report (report_rows)     *)
(* and whether the report was written.                                     *)
(***************************************************************************)
Failed == Raised("Exception", "fetch failed")

\* _fetch_market: rows and warnings, a warning naming the venue and format
fetch_market_first_format_only(name, csv_fetch, html_fetch) ==
    IF csv_fetch.kind = "return" THEN [rows |-> csv_fetch.value, warnings |-> <<>>]
    ELSE [rows |-> <<>>, warnings |-> <<<<name, "CSV">>>>]

fetch_market(name, csv_fetch, html_fetch) ==
    IF csv_fetch.kind = "return" THEN [rows |-> csv_fetch.value, warnings |-> <<>>]
    ELSE IF html_fetch.kind = "return"
    THEN [rows |-> html_fetch.value, warnings |-> <<<<name, "CSV">>>>]
    ELSE [rows |-> <<>>, warnings |-> <<<<name, "CSV">>, <<name, "HTML">>>>]

fetch_all(sources) ==
    LET tse_result == fetch_market("TSE", sources.tse_csv, sources.tse_html)
        otc_result == fetch_market("OTC", sources.otc_csv, sources.otc_html)
    IN  [rows     |-> tse_result.rows \o otc_result.rows,
         warnings |-> tse_result.warnings \o otc_result.warnings]

filter_by_latest_dates(rws, count) ==
    LET latest_dates == get_latest_dates(rws, count)
    IN  IF latest_dates = <<>> THEN [rows |-> <<>>, dates |-> <<>>]
        ELSE [rows  |-> SelectSeq(rws, LAMBDA row : row.date \in SeqRange(latest_dates)),
              dates |-> latest_dates]

\* report_rows of the latest last_date only
latest_only(report_rows) ==
    IF report_rows = <<>> THEN <<>>
    ELSE LET max_date == MaxDate({report_rows[i].last_date : i \in DOMAIN report_rows})
         IN  SelectSeq(report_rows, LAMBDA row : row.last_date = max_date)

TseFetched == <<ARow("TSE", PlainCode, DNew, <<1>>), ARow("TSE", PreferredCode, DOld, <<0>>)>>

OtcFetched ==
    <<ARow("OTC", PlainCode, DNew, <<0>>), ARow("OTC", PlainCode, <<2026, 1, 13>>, <<0>>),
      ARow("OTC", PlainCode, <<2026, 1, 12>>, <<0>>)>>

Outcomes(fetched) == {Failed, Returned(<<>>), Returned(fetched)}

DaysArgs == {0, 1, WindowSize}

DateArgs == {"none", "valid", "invalid"}

MainArgs ==
    [days : DaysArgs, date : DateArgs,
     tse_csv : Outcomes(TseFetched), tse_html : Outcomes(TseFetched),
     otc_csv : Outcomes(OtcFetched), otc_html : Outcomes(OtcFetched)]

At(place) == fn = "main" /\ ret = Pending /\ loc.at = place

MainInit ==
    /\ Idle
    /\ fn = "main"
    /\ arg \in MainArgs
    /\ loc = [at |-> "start", rows |-> <<>>, warnings |-> <<>>, err |-> <<>>,
              report_rows |-> <<>>, written |-> FALSE]
    /\ ret = Pending

\* if args.days <= 0: return 2
RejectDays ==
    /\ At("start")
    /\ arg.days <= 0
    /\ loc' = [loc EXCEPT !.err = Append(@, "--days must be a positive integer")]
    /\ ret' = Returned(2)
    /\ UNCHANGED <<report, fn, arg>>

\* the ledger after the automatic saving: records = storage.load_records()
LoadRecords ==
    /\ At("start")
    /\ arg.days > 0
    /\ records' \in LedgerTemplates(January)
    /\ loc' = [loc EXCEPT !.at = "loaded"]
    /\ UNCHANGED <<rows, ref_date, pc, six_set, tse_latest_date, grouped, gi, results, fn, arg, ret>>

\* except ValueError: return 1
RejectDate ==
    /\ At("loaded")
    /\ arg.date = "invalid"
    /\ loc' = [loc EXCEPT !.err = Append(@, "Invalid date format")]
    /\ ret' = Returned(1)
    /\ UNCHANGED <<report, fn, arg>>

\* result = fetch.fetch_all(end_date)
FetchAll ==
    /\ At("loaded")
    /\ arg.date # "invalid"
    /\ loc' = [loc EXCEPT !.at = "fetched",
                          !.rows = fetch_all(arg).rows,
                          !.warnings = fetch_all(arg).warnings]
    /\ UNCHANGED <<report, fn, arg, ret>>

\* if not result.rows: return 1
NoData ==
    /\ At("fetched")
    /\ loc.rows = <<>>
    /\ loc' = [loc EXCEPT !.err = Append(@, "No data fetched from either market.")]
    /\ ret' = Returned(1)
    /\ UNCHANGED <<report, fn, arg>>

\* filter_by_latest_dates, then build_report on the rows of the window
Classify ==
    /\ At("fetched")
    /\ loc.rows # <<>>
    /\ LET filtered_rows == filter_by_latest_dates(loc.rows, arg.days).rows
       IN  IF filtered_rows = <<>>
           THEN /\ loc' = [loc EXCEPT !.err = Append(@, "No rows found within the requested date window.")]
                /\ ret' = Returned(1)
                /\ UNCHANGED report
           ELSE /\ rows' = filtered_rows
                /\ six_set' = SeqRange(get_latest_dates(filtered_rows, WindowSize))
                /\ tse_latest_date' = tse_latest(filtered_rows)
                /\ grouped' = grouped_of(filtered_rows)
                /\ gi' = Len(grouped') + 1
                /\ results' = build_report(filtered_rows, records, ref_date)
                /\ pc' = "done"
                /\ loc' = [loc EXCEPT !.at = "classified",
                                      !.report_rows = latest_only(results')]
                /\ UNCHANGED <<records, ref_date, ret>>
    /\ UNCHANGED <<fn, arg>>

\* print_table, write_csv, the infographic, the upload: return 0
WriteReport ==
    /\ At("classified")
    /\ loc' = [loc EXCEPT !.at = "written", !.written = TRUE]
    /\ ret' = Returned(0)
    /\ UNCHANGED <<report, fn, arg>>

MainNext == RejectDays \/ LoadRecords \/ RejectDate \/ FetchAll \/ NoData \/ Classify \/ WriteReport

MainSpec == MainInit /\ [][MainNext]_vars

(***************************************************************************)
(* _parse_table_rows step by step: the header row, the column indices,     *)
(* then one pass of the loop per row after the header.  loc holds the      *)
(* place (at), header_idx, the four indices, the position ri of the loop   *)
(* (counted from 1 in the rows) and the list parsed.  The grids are made   *)
(* of header rows in two column orders, rows that are not headers and data *)
(* rows, good and bad, in any order.                                       *)
(***************************************************************************)
MaxGridRows == 3

SpacedNameLabel == <<"zheng", "quan", "IDSP", "ming", "cheng", "LF">>

HeaderRowA == <<CodeLabel, NameLabel, InfoLabel, DateLabel>>

HeaderRowB == <<OtherLabel, AnnDateLabel, InfoLabel, SpacedNameLabel, CodeLabel>>

HeaderRowNoDate == <<CodeLabel, NameLabel, InfoLabel>>

HeaderRowDateFirst == <<DateLabel, CodeLabel, NameLabel, InfoLabel>>

HalfHeaderRow == <<CodeLabel, NameLabel, OtherLabel, DateLabel>>

CodeA == <<"2", "3", "3", "0">>

QuotedCodeB == <<"=", "QUOTE", "1", "1", "0", "1", "QUOTE">>

GoodRowA == <<CodeA, <<"n">>, <<"i", " ", " ", "j">>, ADate>>

GoodRowB == <<QuotedCodeB, <<"m">>, <<"k">>, BDate, <<"x">>>>

\* a data row in the column order of HeaderRowB
GoodRowInOrderB == <<<<"x">>, BDate, <<"k">>, <<"m">>, QuotedCodeB>>

ShortRow == <<CodeA, <<"n">>, <<"i">>>>

NoCodeRow == <<<<" ">>, <<"n">>, <<"i">>, ADate>>

BadDateRow == <<CodeA, <<"n">>, <<"i">>, <<"1", "1", "3", "/", "1", "3", "/", "1">>>>

GridRows ==
    { HeaderRowA, HeaderRowB, HeaderRowNoDate, HeaderRowDateFirst, HalfHeaderRow,
      GoodRowA, GoodRowB, GoodRowInOrderB, ShortRow, NoCodeRow, BadDateRow, BlankRow }

TableRowsInit ==
    /\ Idle
    /\ fn = "_parse_table_rows"
    /\ arg \in {[rows |-> grid, market |-> "TSE"] : grid \in SeqsUpTo(GridRows, MaxGridRows)}
    /\ loc = [at |-> "start", header_idx |-> NoneIndex, code_idx |-> NoneIndex,
              name_idx |-> NoneIndex, info_idx |-> NoneIndex, date_idx |-> NoneIndex,
              ri |-> 0, parsed |-> <<>>]
    /\ ret = Pending

Within(place) == fn = "_parse_table_rows" /\ ret = Pending /\ loc.at = place

\* header_idx = _find_header_row(rows)
HeaderFound ==
    /\ Within("start")
    /\ find_header_row(arg.rows) # NoneIndex
    /\ loc' = [loc EXCEPT !.at = "header", !.header_idx = find_header_row(arg.rows)]
    /\ UNCHANGED <<report, fn, arg, ret>>

\* raise ValueError("Unable to locate header row")
HeaderNotFound ==
    /\ Within("start")
    /\ find_header_row(arg.rows) = NoneIndex
    /\ ret' = Raised("ValueError", "Unable to locate header row")
    /\ UNCHANGED <<report, fn, arg, loc>>

\* headers of the header row at hand
headers_at == [i \in DOMAIN arg.rows[loc.header_idx + 1] |->
                  normalize_header(arg.rows[loc.header_idx + 1][i])]

\* the four indices, none of them None
ColumnsResolved ==
    /\ Within("header")
    /\ NoneIndex \notin {index_of(headers_at, CodeLabel), index_of(headers_at, NameLabel),
                         index_of(headers_at, InfoLabel), date_index_of(headers_at)}
    /\ loc' = [loc EXCEPT !.at = "loop",
                          !.code_idx = index_of(headers_at, CodeLabel),
                          !.name_idx = index_of(headers_at, NameLabel),
                          !.info_idx = index_of(headers_at, InfoLabel),
                          !.date_idx = date_index_of(headers_at),
                          !.ri = loc.header_idx + 2]
    /\ UNCHANGED <<report, fn, arg, ret>>

\* raise ValueError("Missing required columns")
ColumnMissing ==
    /\ Within("header")
    /\ NoneIndex \in {index_of(headers_at, CodeLabel), index_of(headers_at, NameLabel),
                      index_of(headers_at, InfoLabel), date_index_of(headers_at)}
    /\ ret' = Raised("ValueError", "Missing required columns")
    /\ UNCHANGED <<report, fn, arg, loc>>

\* what the pass over the row at hand appends
parsed_at ==
    parsed_of(arg.rows[loc.ri], arg.market,
              loc.code_idx, loc.name_idx, loc.info_idx, loc.date_idx)

\* continue
DataRowSkipped ==
    /\ Within("loop")
    /\ loc.ri <= Len(arg.rows)
    /\ parsed_at = <<>>
    /\ loc' = [loc EXCEPT !.ri = loc.ri + 1]
    /\ UNCHANGED <<report, fn, arg, ret>>

\* parsed.append(AttentionRow(...))
DataRowParsed ==
    /\ Within("loop")
    /\ loc.ri <= Len(arg.rows)
    /\ parsed_at # <<>>
    /\ loc' = [loc EXCEPT !.ri = loc.ri + 1, !.parsed = loc.parsed \o parsed_at]
    /\ UNCHANGED <<report, fn, arg, ret>>

\* return parsed
ParsedReturned ==
    /\ Within("loop")
    /\ loc.ri > Len(arg.rows)
    /\ ret' = Returned(loc.parsed)
    /\ UNCHANGED <<report, fn, arg, loc>>

TableRowsNext ==
    \/ HeaderFound
    \/ HeaderNotFound
    \/ ColumnsResolved
    \/ ColumnMissing
    \/ DataRowSkipped
    \/ DataRowParsed
    \/ ParsedReturned

TableRowsSpec == TableRowsInit /\ [][TableRowsNext]_vars

(***************************************************************************)
(* The two paths on one grid of cell strings: the rows the CSV reader      *)
(* split, an empty line among them, given to _parse_csv and, as a grid, to *)
(* _parse_table_rows.  loc keeps what each path returned or raised.        *)
(***************************************************************************)
EmptyLine == <<>>

PathsInit ==
    /\ Idle
    /\ fn = "_parse_csv, _parse_table_rows"
    /\ arg \in {[rows |-> grid, market |-> market] :
                   grid \in SeqsUpTo(GridRows \cup {EmptyLine}, MaxGridRows),
                   market \in {"TSE", "OTC"}}
    /\ loc = [csv |-> Pending, table |-> Pending]
    /\ ret = Pending

CsvPath ==
    /\ fn = "_parse_csv, _parse_table_rows"
    /\ loc.csv = Pending
    /\ loc' = [loc EXCEPT !.csv = parse_csv(arg.rows, arg.market)]
    /\ UNCHANGED <<report, fn, arg, ret>>

TablePath ==
    /\ fn = "_parse_csv, _parse_table_rows"
    /\ loc.table = Pending
    /\ loc' = [loc EXCEPT !.table = parse_table_rows(arg.rows, arg.market)]
    /\ UNCHANGED <<report, fn, arg, ret>>

PathsNext == CsvPath \/ TablePath

PathsSpec == PathsInit /\ [][PathsNext]_vars

(***************************************************************************)
(* _fetch_market step by step: the CSV attempt, then the HTML attempt.     *)
(* The outcome of each attempt, were it made, is an argument; loc holds    *)
(* the place (at), the attempts made so far (calls) and the warnings.      *)
(***************************************************************************)
AttemptOutcomes ==
    { Failed,
      Raised("ValueError", "No suitable HTML table found"),
      Raised("HTTPError", "503 Server Error"),
      Returned(<<>>),
      Returned(TseFetched),
      Returned(OtcFetched) }

MarketInit ==
    /\ Idle
    /\ fn = "_fetch_market"
    /\ arg \in [name : {"TSE", "OTC"}, csv_fetch : AttemptOutcomes, html_fetch : AttemptOutcomes]
    /\ loc = [at |-> "csv", calls |-> <<>>, warnings |-> <<>>]
    /\ ret = Pending

Attempting(format) == fn = "_fetch_market" /\ ret = Pending /\ loc.at = format

\* return csv_fetch(), warnings
CsvReturned ==
    /\ Attempting("csv")
    /\ arg.csv_fetch.kind = "return"
    /\ loc' = [loc EXCEPT !.calls = Append(@, "CSV")]
    /\ ret' = Returned([rows |-> arg.csv_fetch.value, warnings |-> loc.warnings])
    /\ UNCHANGED <<report, fn, arg>>

\* except Exception as exc: warnings.append(...)
CsvRaised ==
    /\ Attempting("csv")
    /\ arg.csv_fetch.kind = "raise"
    /\ loc' = [at |-> "html", calls |-> Append(loc.calls, "CSV"),
               warnings |-> Append(loc.warnings, <<arg.name, "CSV">>)]
    /\ UNCHANGED <<report, fn, arg, ret>>

\* return html_fetch(), warnings
HtmlReturned ==
    /\ Attempting("html")
    /\ arg.html_fetch.kind = "return"
    /\ loc' = [loc EXCEPT !.calls = Append(@, "HTML")]
    /\ ret' = Returned([rows |-> arg.html_fetch.value, warnings |-> loc.warnings])
    /\ UNCHANGED <<report, fn, arg>>

\* the second handler letting the exception through
HtmlRaised_escaping ==
    /\ Attempting("html")
    /\ arg.html_fetch.kind = "raise"
    /\ loc' = [loc EXCEPT !.calls = Append(@, "HTML")]
    /\ ret' = arg.html_fetch
    /\ UNCHANGED <<report, fn, arg>>

\* except Exception as exc: warnings.append(...); return [], warnings
HtmlRaised ==
    /\ Attempting("html")
    /\ arg.html_fetch.kind = "raise"
    /\ loc' = [loc EXCEPT !.calls = Append(@, "HTML"),
                          !.warnings = Append(@, <<arg.name, "HTML">>)]
    /\ ret' = Returned([rows |-> <<>>, warnings |-> Append(loc.warnings, <<arg.name, "HTML">>)])
    /\ UNCHANGED <<report, fn, arg>>

MarketNext == CsvReturned \/ CsvRaised \/ HtmlReturned \/ HtmlRaised

MarketSpec == MarketInit /\ [][MarketNext]_vars

(***************************************************************************)
(* parse.py: _HTMLTableParser.  The parser is fed a sequence of events, a  *)
(* start tag with its attributes, a data text or an end tag; arg is the    *)
(* sequence and loc the fields of the parser with the number of events     *)
(* handled so far (at).  An attribute value is the integer its text reads  *)
(* as.                                                                      *)
(***************************************************************************)
None == [kind |-> "none"]

Some(value) == [kind |-> "some", value |-> value]

StartTag(tag, attrs) == [kind |-> "start", tag |-> tag, attrs |-> attrs, data |-> <<>>]

EndTag(tag) == [kind |-> "end", tag |-> tag, attrs |-> <<>>, data |-> <<>>]

Data(data) == [kind |-> "data", tag |-> "", attrs |-> <<>>, data |-> data]

\* __init__
new_parser ==
    [tables |-> <<>>, table_depth |-> 0, current_table |-> None, current_row |-> None,
     current_cell |-> None, cell_text |-> <<>>]

\* int(attrs_map.get(name) or 1), the map keeping the last value of a name
attr_or_one(attrs, name) ==
    LET at == {i \in DOMAIN attrs : attrs[i][1] = name}
    IN  IF at = {} THEN 1
        ELSE attrs[CHOOSE i \in at : \A j \in at : j <= i][2]

handle_starttag(p, tag, attrs) ==
    LET depth == IF tag = "table" THEN p.table_depth + 1 ELSE p.table_depth
        q     == [p EXCEPT !.table_depth = depth,
                           !.current_table = IF tag = "table" /\ depth = 1 THEN Some(<<>>) ELSE @]
    IN  IF depth # 1 THEN q
        ELSE IF tag = "tr" THEN [q EXCEPT !.current_row = Some(<<>>)]
        ELSE IF tag \in {"td", "th"}
        THEN [q EXCEPT !.current_cell = Some([text      |-> <<>>,
                                              rowspan   |-> attr_or_one(attrs, "rowspan"),
                                              colspan   |-> attr_or_one(attrs, "colspan"),
                                              is_header |-> tag = "th"]),
                       !.cell_text = <<>>]
        ELSE IF tag = "br" /\ q.current_cell # None
        THEN [q EXCEPT !.cell_text = Append(@, <<"LF">>)]
        ELSE q

handle_data(p, data) ==
    IF p.current_cell # None THEN [p EXCEPT !.cell_text = Append(@, data)] ELSE p

\* "".join(self._cell_text)
RECURSIVE joined(_)
joined(texts) == IF texts = <<>> THEN <<>> ELSE Head(texts) \o joined(Tail(texts))

handle_endtag(p, tag) ==
    IF p.table_depth # 1
    THEN IF tag = "table"
         THEN [p EXCEPT !.table_depth = IF @ - 1 > 0 THEN @ - 1 ELSE 0]
         ELSE p
    ELSE IF tag \in {"td", "th"} /\ p.current_cell # None
    THEN LET cell == [p.current_cell.value EXCEPT !.text = clean_text(joined(p.cell_text))]
         IN  [p EXCEPT !.current_row = IF @ # None THEN Some(Append(@.value, cell)) ELSE @,
                       !.current_cell = None,
                       !.cell_text = <<>>]
    ELSE IF tag = "tr"
    THEN [p EXCEPT !.current_table = IF p.current_row # None /\ @ # None
                                     THEN Some(Append(@.value, p.current_row.value)) ELSE @,
                   !.current_row = None]
    ELSE IF tag = "table"
    THEN [p EXCEPT !.tables = IF p.current_table # None /\ p.current_table.value # <<>>
                              THEN Append(@, p.current_table.value) ELSE @,
                   !.current_table = None,
                   !.table_depth = 0]
    ELSE p

handle(p, event) ==
    IF event.kind = "start" THEN handle_starttag(p, event.tag, event.attrs)
    ELSE IF event.kind = "data" THEN handle_data(p, event.data)
    ELSE handle_endtag(p, event.tag)

\* the parser after the events are fed to a new parser, one by one
RECURSIVE fed(_)
fed(events) ==
    IF events = <<>> THEN new_parser
    ELSE handle(fed(SubSeq(events, 1, Len(events) - 1)), events[Len(events)])

MaxEvents == 4

MaxNested == 3

NoAttrs == <<>>

EventAlphabet ==
    {StartTag(t, NoAttrs) : t \in {"table", "tr", "td", "th", "br"}}
    \cup {EndTag(t) : t \in {"table", "tr", "td", "th"}}
    \cup {Data(<<"x">>)}

\* an outer table of one row of two cells, a nested table inside the first
\* cell, between the texts a and b
NestedInCell(inner) ==
    <<StartTag("table", NoAttrs), StartTag("tr", NoAttrs),
      StartTag("td", <<<<"rowspan", 2>>, <<"colspan", 1>>>>), Data(<<"a">>),
      StartTag("table", NoAttrs)>>
    \o inner
    \o <<EndTag("table"), Data(<<"b">>), EndTag("td"),
         StartTag("th", NoAttrs), Data(<<"c">>), EndTag("th"), EndTag("tr"), EndTag("table")>>

\* a nested table between two cells of the row
NestedInRow(inner) ==
    <<StartTag("table", NoAttrs), StartTag("tr", NoAttrs),
      StartTag("td", NoAttrs), Data(<<"a">>), EndTag("td"), StartTag("table", NoAttrs)>>
    \o inner
    \o <<EndTag("table"), StartTag("td", NoAttrs), Data(<<"c">>), EndTag("td"),
         EndTag("tr"), EndTag("table")>>

EventSeqs ==
    SeqsUpTo(EventAlphabet, MaxEvents)
    \cup {NestedInCell(inner) : inner \in SeqsUpTo(EventAlphabet, MaxNested)}
    \cup {NestedInRow(inner) : inner \in SeqsUpTo(EventAlphabet, MaxNested)}

ParserInit ==
    /\ Idle
    /\ fn = "_HTMLTableParser.feed"
    /\ arg \in EventSeqs
    /\ loc = [at |-> 0, parser |-> new_parser]
    /\ ret = Pending

Feeding(kind) ==
    /\ fn = "_HTMLTableParser.feed"
    /\ ret = Pending
    /\ loc.at < Len(arg)
    /\ arg[loc.at + 1].kind = kind

HandleStarttag ==
    /\ Feeding("start")
    /\ loc' = [at     |-> loc.at + 1,
               parser |-> handle_starttag(loc.parser, arg[loc.at + 1].tag, arg[loc.at + 1].attrs)]
    /\ UNCHANGED <<report, fn, arg, ret>>

HandleData ==
    /\ Feeding("data")
    /\ loc' = [at |-> loc.at + 1, parser |-> handle_data(loc.parser, arg[loc.at + 1].data)]
    /\ UNCHANGED <<report, fn, arg, ret>>

HandleEndtag ==
    /\ Feeding("end")
    /\ loc' = [at |-> loc.at + 1, parser |-> handle_endtag(loc.parser, arg[loc.at + 1].tag)]
    /\ UNCHANGED <<report, fn, arg, ret>>

\* the caller reads parser.tables once everything is fed
TablesRead ==
    /\ fn = "_HTMLTableParser.feed"
    /\ ret = Pending
    /\ loc.at = Len(arg)
    /\ ret' = Returned(loc.parser.tables)
    /\ UNCHANGED <<report, fn, arg, loc>>

ParserNext == HandleStarttag \/ HandleData \/ HandleEndtag \/ TablesRead

ParserSpec == ParserInit /\ [][ParserNext]_vars

(***************************************************************************)
(* storage.py and the automatic saving of cli.main.  The ledger file is    *)
(* [exists, header, lines, open_end]: whether its first line is the header *)
(* line, its other lines as written, each [code, earnings_month,           *)
(* announcement_date] with the date as the text of its digits, and whether *)
(* its last line lacks the line end.  arg holds the rows fetched from      *)
(* StockWarden and the target dates; loc holds the file, the number of     *)
(* rows of the loop handled so far (i), the count of added records and the *)
(* run of the command (the command may be run a second time on the same    *)
(* fetched rows).  The years have four digits.                             *)
(***************************************************************************)
NoFile == [exists |-> FALSE, header |-> FALSE, lines |-> <<>>, open_end |-> FALSE]

\* f"{n:02d}" and f"{n:04d}"
zero_padded(n, width) == [k \in 1 .. width |-> DigitChars[((n \div (10 ^ (width - k))) % 10) + 1]]

\* d.strftime("%Y%m%d")
strftime_Ymd(d) == zero_padded(d[1], 4) \o zero_padded(d[2], 2) \o zero_padded(d[3], 2)

NonZeroDigits == Digits \ {"0"}

\* the lengths of the texts the directive %m matches at the head of text,
\* in the order of its alternatives 1[0-2] | 0[1-9] | [1-9]
month_matches(text) ==
    (IF Len(text) >= 2 /\ text[1] = "1" /\ text[2] \in {"0", "1", "2"} THEN <<2>> ELSE <<>>)
    \o (IF Len(text) >= 2 /\ text[1] = "0" /\ text[2] \in NonZeroDigits THEN <<2>> ELSE <<>>)
    \o (IF Len(text) >= 1 /\ text[1] \in NonZeroDigits THEN <<1>> ELSE <<>>)

\* the same for %d: 3[01] | [12]\d | 0[1-9] | [1-9] | " "[1-9]
day_matches(text) ==
    (IF Len(text) >= 2 /\ text[1] = "3" /\ text[2] \in {"0", "1"} THEN <<2>> ELSE <<>>)
    \o (IF Len(text) >= 2 /\ text[1] \in {"1", "2"} /\ text[2] \in Digits THEN <<2>> ELSE <<>>)
    \o (IF Len(text) >= 2 /\ text[1] = "0" /\ text[2] \in NonZeroDigits THEN <<2>> ELSE <<>>)
    \o (IF Len(text) >= 1 /\ text[1] \in NonZeroDigits THEN <<1>> ELSE <<>>)
    \o (IF Len(text) >= 2 /\ text[1] = " " /\ text[2] \in NonZeroDigits THEN <<2>> ELSE <<>>)

from(text, n) == SubSeq(text, n + 1, Len(text))

\* datetime.strptime(text, "%Y%m%d").date()
strptime_Ymd(text) ==
    IF Len(text) < 4 \/ \E k \in 1 .. 4 : text[k] \notin Digits
    THEN Raised("ValueError", "does not match format")
    ELSE LET rest == from(text, 4)
             ms   == SelectSeq(month_matches(rest), LAMBDA lm : day_matches(from(rest, lm)) # <<>>)
         IN  IF ms = <<>> THEN Raised("ValueError", "does not match format")
             ELSE LET lm == Head(ms)
                      ld == Head(day_matches(from(rest, lm)))
                  IN  IF 4 + lm + ld # Len(text)
                      THEN Raised("ValueError", "unconverted data remains")
                      ELSE date(decimal(SubSeq(text, 1, 4)),
                                int(SubSeq(rest, 1, lm)),
                                int(SubSeq(rest, lm + 1, lm + ld)))

\* one row of the reader: the record, or the error that skips the row.  The
\* reader takes the first line of the file for the names of the fields: when
\* that line is not the header, row["announcement_date"] raises KeyError
read_row(header, line) ==
    IF ~header THEN Raised("KeyError", "announcement_date")
    ELSE LET dt == strptime_Ymd(line.announcement_date)
         IN  IF dt.kind = "raise" THEN dt
             ELSE Returned(ARecord(line.code, line.earnings_month, dt.value))

\* for row in reader: the first line is not a row
RECURSIVE read_rows(_, _)
read_rows(header, lines) ==
    IF lines = <<>> THEN <<>>
    ELSE LET one == read_row(header, Head(lines))
         IN  (IF one.kind = "return" THEN <<one.value>> ELSE <<>>)
             \o read_rows(header, Tail(lines))

load_records(file) ==
    IF ~file.exists THEN <<>>
    ELSE IF file.header THEN read_rows(TRUE, file.lines)
    ELSE IF file.lines = <<>> THEN <<>>
    ELSE read_rows(FALSE, Tail(file.lines))

record_exists(file, code, earnings_month, announcement_date) ==
    LET recs == load_records(file)
    IN  \E k \in DOMAIN recs :
           /\ recs[k].code = code
           /\ recs[k].earnings_month = earnings_month
           /\ recs[k].announcement_date = announcement_date

\* the line end missing from the last line is written before the appended
\* row; the header is written only when the file does not exist yet
save_record(file, record) ==
    [exists     |-> TRUE,
     header     |-> IF file.exists THEN file.header ELSE TRUE,
     lines      |-> Append(file.lines,
                           [code              |-> record.code,
                            earnings_month    |-> record.earnings_month,
                            announcement_date |-> strftime_Ymd(record.announcement_date)]),
     open_end   |-> FALSE]

\* row.code.startswith('91')
is_depositary(code) == Len(code) >= 2 /\ code[1] = "9" /\ code[2] = "1"

\* row.announcement_date in target_dates and row.earnings_month
is_candidate(row, target_dates) ==
    row.announcement_date \in target_dates /\ row.earnings_month # NoneMonth

MaxBatch == 3

Today == <<2026, 1, 13>>

Yesterday == <<2026, 1, 12>>

Earlier == <<2025, 12, 30>>

DepositaryCode == <<"9", "1", "0", "3">>

WepsRow(code, announcement_date, earnings_month) ==
    [code |-> code, announcement_date |-> announcement_date, earnings_month |-> earnings_month]

WepsRows ==
    {WepsRow(PlainCode, Today, 202512), WepsRow(PlainCode, Yesterday, 202512),
     WepsRow(FillCode, Today, 202511), WepsRow(DepositaryCode, Today, 202512),
     WepsRow(PlainCode, Today, NoneMonth), WepsRow(PlainCode, NoneDate, 202512),
     WepsRow(FillCode, Earlier, 202512)}

ALine(code, earnings_month, date_text) ==
    [code |-> code, earnings_month |-> earnings_month, announcement_date |-> date_text]

EmptyFile == [exists |-> TRUE, header |-> FALSE, lines |-> <<>>, open_end |-> FALSE]

\* the ledger is missing, empty, or was written by save_record; a line may
\* have been edited by hand since, and the last line end removed
LedgerFiles ==
    {NoFile, EmptyFile,
     [exists |-> TRUE, header |-> TRUE, open_end |-> FALSE,
      lines |-> <<ALine(PlainCode, 202512, strftime_Ymd(Today))>>],
     [exists |-> TRUE, header |-> TRUE, open_end |-> TRUE,
      lines |-> <<ALine(FillCode, 202511, <<"2", "0", "2", "6", "-", "0", "1", "-", "1", "3">>),
                  ALine(PlainCode, 202512, strftime_Ymd(Yesterday))>>],
     [exists |-> TRUE, header |-> TRUE, open_end |-> FALSE,
      lines |-> <<ALine(PlainCode, 202511, strftime_Ymd(Today)),
                  ALine(FillCode, 202511, strftime_Ymd(Earlier))>>]}

\* --update-weps compares with one date, the report run with two
TargetDates == {{Today}, {Yesterday, Today}}

AutoSaveInit ==
    /\ Idle
    /\ fn = "main (auto-save)"
    /\ arg \in [weps_rows : SeqsUpTo(WepsRows, MaxBatch), target_dates : TargetDates]
    /\ \E file \in LedgerFiles : loc = [file |-> file, i |-> 0, added_count |-> 0, run |-> 1]
    /\ ret = Pending

InBatch ==
    /\ fn = "main (auto-save)"
    /\ ret = Pending
    /\ loc.i < Len(arg.weps_rows)

\* if row.code.startswith('91'): continue
SkipDepositary ==
    /\ InBatch
    /\ is_depositary(arg.weps_rows[loc.i + 1].code)
    /\ loc' = [loc EXCEPT !.i = @ + 1]
    /\ UNCHANGED <<report, fn, arg, ret>>

\* the row is not announced on a target date, or has no earnings month
SkipOther ==
    /\ InBatch
    /\ ~is_depositary(arg.weps_rows[loc.i + 1].code)
    /\ ~is_candidate(arg.weps_rows[loc.i + 1], arg.target_dates)
    /\ loc' = [loc EXCEPT !.i = @ + 1]
    /\ UNCHANGED <<report, fn, arg, ret>>

\* storage.record_exists(...) is true
SkipRecorded ==
    /\ InBatch
    /\ LET row == arg.weps_rows[loc.i + 1]
       IN  /\ ~is_depositary(row.code)
           /\ is_candidate(row, arg.target_dates)
           /\ record_exists(loc.file, row.code, row.earnings_month, row.announcement_date)
    /\ loc' = [loc EXCEPT !.i = @ + 1]
    /\ UNCHANGED <<report, fn, arg, ret>>

\* storage.save_record(...); added_count += 1
SaveRecord ==
    /\ InBatch
    /\ LET row == arg.weps_rows[loc.i + 1]
       IN  /\ ~is_depositary(row.code)
           /\ is_candidate(row, arg.target_dates)
           /\ ~record_exists(loc.file, row.code, row.earnings_month, row.announcement_date)
           /\ loc' = [loc EXCEPT !.file = save_record(@, ARecord(row.code, row.earnings_month,
                                                                 row.announcement_date)),
                                 !.i = @ + 1,
                                 !.added_count = @ + 1]
    /\ UNCHANGED <<report, fn, arg, ret>>

AfterBatch ==
    /\ fn = "main (auto-save)"
    /\ ret = Pending
    /\ loc.i = Len(arg.weps_rows)

\* the command is run once more, on the same fetched rows
RunAgain ==
    /\ AfterBatch
    /\ loc.run = 1
    /\ loc' = [loc EXCEPT !.i = 0, !.added_count = 0, !.run = 2]
    /\ UNCHANGED <<report, fn, arg, ret>>

\* records = storage.load_records()
RecordsLoaded ==
    /\ AfterBatch
    /\ ret' = Returned(load_records(loc.file))
    /\ UNCHANGED <<report, fn, arg, loc>>

AutoSaveNext ==
    SkipDepositary \/ SkipOther \/ SkipRecorded \/ SaveRecord \/ RunAgain \/ RecordsLoaded

AutoSaveSpec == AutoSaveInit /\ [][AutoSaveNext]_vars

(***************************************************************************)
(* Vocabulary of the properties, stated over the inputs of the run         *)
(***************************************************************************)
Done == pc = "done"

KeysIn == {<<rows[i].market, rows[i].code>> : i \in DOMAIN rows}

RowsOfKey(k) == {i \in DOMAIN rows : rows[i].market = k[1] /\ rows[i].code = k[2]}

ResultsOfKey(k) == {j \in DOMAIN results : results[j].market = k[1] /\ results[j].code = k[2]}

ResultKey(r) == <<r.market, r.code>>

DigitCount(code) == Cardinality({i \in DOMAIN code : code[i] \in Digits})

Derivative(code) == DigitCount(code) >= 5

Mentions(info, clauses) == \E i \in DOMAIN info : info[i] \in clauses

AllDates == {rows[i].date : i \in DOMAIN rows}

\* the six most recent distinct notice dates
RecencyWindow == {d \in AllDates : Cardinality({e \in AllDates : DateLT(d, e)}) < 6}

InWindowRows(k) == {i \in RowsOfKey(k) : rows[i].date \in RecencyWindow}

\* rows of a Primary-venue group that qualify for the count rule
QualifyingRows(k) == {i \in InWindowRows(k) : ~Mentions(rows[i].info, {10})}

IsPrimaryLatest(d) ==
    /\ \E i \in DOMAIN rows : rows[i].market = "TSE" /\ rows[i].date = d
    /\ \A i \in DOMAIN rows : rows[i].market = "TSE" => ~DateLT(d, rows[i].date)

OnPrimaryLatest(k, clauses) ==
    \E i \in RowsOfKey(k) : IsPrimaryLatest(rows[i].date) /\ Mentions(rows[i].info, clauses)

TriggerFires(k) ==
    \/ k[1] = "OTC" /\ Cardinality(InWindowRows(k)) >= 3
    \/ k[1] = "TSE" /\ OnPrimaryLatest(k, 1..8)

HasReason(k, reason) ==
    \E j \in ResultsOfKey(k) : \E n \in DOMAIN results[j].reason : results[j].reason[n] = reason

\* the year and month k months before the reference date's, as YYYYMM
MonthsBack(k) ==
    LET t == ref_date[1] * 12 + (ref_date[2] - 1) - k
    IN  (t \div 12) * 100 + (t % 12) + 1

AnnouncedIn(i, ym) ==
    records[i].announcement_date[1] * 100 + records[i].announcement_date[2] = ym

\* the ledger entries of a code that are not announced after the reference date
NonFuture(code) ==
    {i \in DOMAIN records :
        records[i].code = code /\ ~DateLT(ref_date, records[i].announcement_date)}

\* entry i comes before entry j when the entries are scanned newest first
ScannedBefore(i, j) ==
    \/ DateLT(records[j].announcement_date, records[i].announcement_date)
    \/ records[j].announcement_date = records[i].announcement_date /\ i < j

FirstScanned(S) == CHOOSE i \in S : \A j \in S \ {i} : ScannedBefore(i, j)

ThisMonthEntries(code) == {i \in NonFuture(code) : AnnouncedIn(i, MonthsBack(0))}

HasOneMonthPrior(code) == \E i \in NonFuture(code) : records[i].earnings_month = MonthsBack(1)

\* the Secondary-venue exception of Step 4a
OtcException(k) ==
    /\ k[1] = "OTC"
    /\ ThisMonthEntries(k[2]) # {}
    /\ records[FirstScanned(ThisMonthEntries(k[2]))].earnings_month = MonthsBack(2)
    /\ ~HasOneMonthPrior(k[2])

QualifiesForExclusion(k) == ThisMonthEntries(k[2]) # {} /\ ~OtcException(k)

\* entries that Step 4b would tag on
LastMonthTagEntries(code) ==
    {i \in NonFuture(code) :
        /\ AnnouncedIn(i, MonthsBack(1))
        /\ records[i].earnings_month \in {MonthsBack(2), MonthsBack(3)}}

NoLedgerHit(code) == ThisMonthEntries(code) = {} /\ LastMonthTagEntries(code) = {}

LastMonthReasons ==
    {"month-3-disclosed-last-month", "month-2-disclosed-last-month",
     "month-2-disclosed-last-month-last-month-outstanding"}

(***************************************************************************)
(* C1  Derivative exclusion: no result ever carries a code with five or    *)
(* more digit characters, whatever reasons or ledger entries the code has. *)
(***************************************************************************)
C1_NoDerivativeResult ==
    \A j \in DOMAIN results : DigitCount(results[j].code) < 5

\* a finished run in which a group of a derivative code had a trigger reason
\* and gave no result
C1_Witness ==
    /\ Done
    /\ \E k \in KeysIn :
          /\ Derivative(k[2])
          /\ TriggerFires(k)
          /\ ResultsOfKey(k) = {}

(***************************************************************************)
(* C2  Ledger future-date exclusion: the results are those of the run on   *)
(* the ledger without its entries announced after the reference date; an   *)
(* entry announced on the reference date itself takes part (it excludes or *)
(* tags the groups of its code).                                            *)
(***************************************************************************)
WithoutFuture(recs, ref) == SelectSeq(recs, LAMBDA r : ~DateLT(ref, r.announcement_date))

C2_FutureLedgerExclusion ==
    Done =>
        /\ results = build_report(rows, WithoutFuture(records, ref_date), ref_date)
        /\ \A j \in DOMAIN results :
              (\E i \in DOMAIN records :
                    /\ records[i].code = results[j].code
                    /\ records[i].announcement_date = ref_date)
              => (results[j].is_excluded \/ results[j].is_tagged)

\* a result whose code has a future entry in the reference month and none else
C2_Witness ==
    /\ Done
    /\ \E j \in DOMAIN results :
          /\ \E i \in DOMAIN records :
                /\ records[i].code = results[j].code
                /\ DateLT(ref_date, records[i].announcement_date)
                /\ AnnouncedIn(i, MonthsBack(0))
                /\ records[i].earnings_month = MonthsBack(1)
          /\ ~results[j].is_excluded
          /\ results[j].uncertain_type = "otc-month-2-last-month"

(***************************************************************************)
(* C3  Priority ordering: a result whose group qualifies for the Low-Risk  *)
(* exclusion of Step 4a while the ledger also holds a last-month entry     *)
(* that Step 4b would tag on is excluded, is not tagged, has no uncertain  *)
(* type and carries no last-month reason.                                  *)
(***************************************************************************)
C3_ExclusionWins ==
    \A j \in DOMAIN results :
        (/\ QualifiesForExclusion(ResultKey(results[j]))
         /\ LastMonthTagEntries(results[j].code) # {})
        => /\ results[j].is_excluded
           /\ ~results[j].is_tagged
           /\ results[j].uncertain_type = NoneType
           /\ \A n \in DOMAIN results[j].reason : results[j].reason[n] \notin LastMonthReasons

(***************************************************************************)
(* C4  A result whose group qualifies for the exclusion is excluded and    *)
(* carries the date and month of the ledger entry that excluded it, a date *)
(* in the reference month, whatever older entries the code has.            *)
(***************************************************************************)
C4_ExclusionCarriesItsEntry ==
    \A j \in DOMAIN results :
        QualifiesForExclusion(ResultKey(results[j]))
        => LET e == records[FirstScanned(ThisMonthEntries(results[j].code))]
           IN  /\ results[j].is_excluded
               /\ results[j].announced_date = e.announcement_date
               /\ results[j].announced_month = e.earnings_month
               /\ results[j].announced_date[1] = ref_date[1]
               /\ results[j].announced_date[2] = ref_date[2]

(***************************************************************************)
(* C5  Every result has a non-empty reason, and a result exists only for a *)
(* group with a trigger reason or a tag.                                    *)
(***************************************************************************)
C5_NeverEmittedWithoutReason ==
    \A j \in DOMAIN results :
        /\ results[j].reason # <<>>
        /\ (TriggerFires(ResultKey(results[j])) \/ results[j].is_tagged)

\* a finished run that dropped a group with a ledger entry in the reference
\* month and no trigger reason, and emitted another group
C5_Witness ==
    /\ Done
    /\ results # <<>>
    /\ \E k \in KeysIn :
          /\ ~Derivative(k[2])
          /\ ~TriggerFires(k)
          /\ ThisMonthEntries(k[2]) # {}
          /\ ResultsOfKey(k) = {}

(***************************************************************************)
(* C6  A Primary-venue group with a qualifying count of at least 3, a      *)
(* clause 9-13 row on the primary-latest date and neither exclusion nor    *)
(* ledger tag is emitted tagged tse-clause-9-13, also when it has no       *)
(* clause 1-8 row on the primary-latest date.                              *)
(***************************************************************************)
C6_Clause913Tagged ==
    Done =>
        \A k \in KeysIn :
            (/\ k[1] = "TSE"
             /\ ~Derivative(k[2])
             /\ Cardinality(QualifyingRows(k)) >= 3
             /\ OnPrimaryLatest(k, 9..13)
             /\ NoLedgerHit(k[2]))
            => \E j \in ResultsOfKey(k) :
                  results[j].uncertain_type = "tse-clause-9-13" /\ results[j].is_tagged

(***************************************************************************)
(* C7  The tse-clause-9-13 tag is never found on an excluded result, on a  *)
(* group for which the ledger gives a tag, on a Secondary-venue group or   *)
(* on a group whose qualifying count is below 3.                            *)
(***************************************************************************)
C7_Clause913OnlyUntagged ==
    \A j \in DOMAIN results :
        results[j].uncertain_type = "tse-clause-9-13"
        => /\ ~results[j].is_excluded
           /\ NoLedgerHit(results[j].code)
           /\ results[j].market = "TSE"
           /\ Cardinality(QualifyingRows(ResultKey(results[j]))) >= 3

\* a result tagged tse-clause-9-13 whose code has ledger entries, none of them
\* giving an exclusion or a tag
C7_Witness ==
    \E j \in DOMAIN results :
        /\ results[j].uncertain_type = "tse-clause-9-13"
        /\ results[j].is_tagged
        /\ \E i \in DOMAIN records : records[i].code = results[j].code

(***************************************************************************)
(* C8  Count rule: a Secondary-venue group has the three-strikes reason    *)
(* exactly when at least 3 of its rows, same-day rows counted one by one,  *)
(* are dated inside the recency window; a Primary-venue group never has    *)
(* it.  (Groups of derivative codes are skipped before the rule.)          *)
(***************************************************************************)
C8_ThreeStrikes ==
    Done =>
        \A k \in KeysIn :
            /\ (k[1] = "OTC" /\ ~Derivative(k[2]))
               => (HasReason(k, "three-strikes-in-six-days")
                   <=> Cardinality(InWindowRows(k)) >= 3)
            /\ k[1] = "TSE" => ~HasReason(k, "three-strikes-in-six-days")

\* the reason given on exactly three in-window rows that share one day, in
\* an input whose oldest date lies outside the recency window
C8_Witness ==
    /\ Done
    /\ RecencyWindow # AllDates
    /\ \E k \in KeysIn :
          /\ k[1] = "OTC"
          /\ HasReason(k, "three-strikes-in-six-days")
          /\ Cardinality(InWindowRows(k)) = 3
          /\ Cardinality({rows[i].date : i \in InWindowRows(k)}) = 1

(***************************************************************************)
(* C9  Clause-flag rule: a Primary-venue group has the yesterday-clause-   *)
(* 1-8 reason exactly when one of its rows on the primary-latest date      *)
(* matches clause 1-8; with no ledger hit and no clause 9-13 row on that   *)
(* date its result is neither excluded nor tagged.                          *)
(***************************************************************************)
C9_ClauseFlag ==
    Done =>
        \A k \in KeysIn :
            (k[1] = "TSE" /\ ~Derivative(k[2]))
            => /\ HasReason(k, "yesterday-clause-1-8") <=> OnPrimaryLatest(k, 1..8)
               /\ (/\ OnPrimaryLatest(k, 1..8)
                   /\ NoLedgerHit(k[2])
                   /\ ~OnPrimaryLatest(k, 9..13))
                  => \E j \in ResultsOfKey(k) :
                        ~results[j].is_excluded /\ ~results[j].is_tagged

\* a High-Risk result of a group that also has a clause 1-8 row on an older day
C9_Witness ==
    /\ Done
    /\ \E j \in DOMAIN results :
          /\ results[j].market = "TSE"
          /\ results[j].reason = <<"yesterday-clause-1-8">>
          /\ ~results[j].is_excluded
          /\ ~results[j].is_tagged
          /\ \E i \in RowsOfKey(ResultKey(results[j])) :
                ~IsPrimaryLatest(rows[i].date) /\ Mentions(rows[i].info, 1..8)

(***************************************************************************)
(* C10 Secondary-venue exception of Step 4a: with a trigger reason, a      *)
(* reference-month entry for the month two before and no non-future entry  *)
(* for the month one before, an OTC group is tagged otc-month-2-this-month *)
(* with that entry's date and month and is not excluded; a TSE group with  *)
(* the same ledger is excluded.                                             *)
(***************************************************************************)
ExceptionLedger(code) ==
    /\ ThisMonthEntries(code) # {}
    /\ records[FirstScanned(ThisMonthEntries(code))].earnings_month = MonthsBack(2)
    /\ ~HasOneMonthPrior(code)

C10_OtcMonth2ThisMonth ==
    Done =>
        \A k \in KeysIn :
            (~Derivative(k[2]) /\ TriggerFires(k) /\ ExceptionLedger(k[2]))
            => LET e == records[FirstScanned(ThisMonthEntries(k[2]))]
               IN  /\ k[1] = "OTC"
                      => \E j \in ResultsOfKey(k) :
                            /\ results[j].uncertain_type = "otc-month-2-this-month"
                            /\ results[j].is_tagged
                            /\ ~results[j].is_excluded
                            /\ results[j].announced_date = e.announcement_date
                            /\ results[j].announced_month = e.earnings_month
                   /\ k[1] = "TSE"
                      => \E j \in ResultsOfKey(k) : results[j].is_excluded

\* an OTC and a TSE group of one code, both with a trigger reason, under a
\* ledger with two reference-month entries, the newer for the month two before
C10_Witness ==
    /\ Done
    /\ \E c \in {k[2] : k \in KeysIn} :
          /\ ExceptionLedger(c)
          /\ Cardinality(ThisMonthEntries(c)) = 2
          /\ TriggerFires(<<"OTC", c>>)
          /\ TriggerFires(<<"TSE", c>>)
          /\ ResultsOfKey(<<"OTC", c>>) # {}
          /\ ResultsOfKey(<<"TSE", c>>) # {}

(***************************************************************************)
(* C11 Step 4b tag selection: for a group with a trigger reason that Step  *)
(* 4a neither excludes nor tags, the first entry, scanning the non-future  *)
(* entries of the code newest first, that was announced in the month       *)
(* before the reference month (December of the year before when the        *)
(* reference month is January) for the month three or two before decides:  *)
(* three before gives month-3; two before gives month-2, or                *)
(* otc-month-2-last-month for an OTC group with no non-future entry for    *)
(* the month one before.  The result carries that entry's date and month.  *)
(* Entries announced last month for any other month are passed over, and   *)
(* with no deciding entry the result has no Step 4b tag.                   *)
(***************************************************************************)
Step4bTypes == {"month-3", "month-2", "otc-month-2-last-month"}

Step4bType(k, e) ==
    IF e.earnings_month = MonthsBack(3) THEN "month-3"
    ELSE IF k[1] = "OTC" /\ ~HasOneMonthPrior(k[2]) THEN "otc-month-2-last-month"
    ELSE "month-2"

C11_Step4bTagSelection ==
    Done =>
        \A k \in KeysIn :
            (~Derivative(k[2]) /\ TriggerFires(k) /\ ThisMonthEntries(k[2]) = {})
            => \E j \in ResultsOfKey(k) :
                  IF LastMonthTagEntries(k[2]) = {}
                  THEN /\ results[j].uncertain_type \notin Step4bTypes
                       /\ \A n \in DOMAIN results[j].reason :
                             results[j].reason[n] \notin LastMonthReasons
                  ELSE LET e == records[FirstScanned(LastMonthTagEntries(k[2]))]
                       IN  /\ results[j].is_tagged
                           /\ results[j].uncertain_type = Step4bType(k, e)
                           /\ results[j].announced_date = e.announcement_date
                           /\ results[j].announced_month = e.earnings_month

\* a January run that tags month-2 on a December entry of the year before,
\* scanned after a December entry for another month that was passed over
C11_Witness ==
    /\ Done
    /\ ref_date[2] = 1
    /\ \E j \in DOMAIN results :
          /\ results[j].uncertain_type = "month-2"
          /\ results[j].announced_date[1] = ref_date[1] - 1
          /\ results[j].announced_date[2] = 12
          /\ ThisMonthEntries(results[j].code) = {}
          /\ \E i \in NonFuture(results[j].code) :
                /\ AnnouncedIn(i, MonthsBack(1))
                /\ records[i].earnings_month \notin {MonthsBack(2), MonthsBack(3)}
                /\ ScannedBefore(i, FirstScanned(LastMonthTagEntries(results[j].code)))

(***************************************************************************)
(* C12 Windowing: for the rows of any run and any count n,                 *)
(* get_latest_dates returns the min(n, k) most recent of the k distinct    *)
(* row dates, in ascending order and without duplicates, and the empty     *)
(* list for n <= 0 or no rows; the recency window of build_report is the   *)
(* answer for n = 6.                                                        *)
(***************************************************************************)
Counts == -1 .. MaxCount

MostRecent(n) == {d \in AllDates : Cardinality({e \in AllDates : DateLT(d, e)}) < n}

\* the rows never change in a run: the calls are looked at once, at its start
C12_Windowing ==
    /\ pc = "start" =>
          \A n \in Counts :
              LET latest == get_latest_dates(rows, n)
                  k      == Cardinality(AllDates)
              IN  /\ Len(latest) = IF n <= 0 THEN 0 ELSE IF n <= k THEN n ELSE k
                  /\ \A a, b \in DOMAIN latest : a < b => DateLT(latest[a], latest[b])
                  /\ SeqRange(latest) = MostRecent(n)
    /\ pc # "start" => six_set = MostRecent(6)

\* a run on rows with more than six distinct dates, two rows sharing a date
C12_Witness ==
    /\ pc = "loop"
    /\ Cardinality(AllDates) > 6
    /\ Cardinality(six_set) = 6
    /\ \E a, b \in DOMAIN rows : a # b /\ rows[a].date = rows[b].date

C14_InputsReadOnly == [][rows' = rows /\ records' = records /\ ref_date' = ref_date]_vars

\* a finished run with a result for a code whose ledger entries are given
\* oldest first, so that the newest-first scan had to reorder them
C14_Witness ==
    /\ Done
    /\ \E j \in DOMAIN results :
          \E a, b \in DOMAIN records :
              /\ a < b
              /\ records[a].code = results[j].code
              /\ records[b].code = results[j].code
              /\ DateLT(records[a].announcement_date, records[b].announcement_date)

(***************************************************************************)
(* C15 At most one result per (market, code): no two results of a run      *)
(* share market and code, however many rows, same-day rows among them,     *)
(* the group has.                                                           *)
(***************************************************************************)
C15_OneResultPerKey ==
    \A a, b \in DOMAIN results :
        (results[a].market = results[b].market /\ results[a].code = results[b].code) => a = b

\* two results, one of a group with two rows of one day that are not
\* adjacent in the input
C15_Witness ==
    /\ Done
    /\ Len(results) >= 2
    /\ \E j \in DOMAIN results :
          \E a, b \in RowsOfKey(ResultKey(results[j])) :
              /\ a + 1 < b
              /\ rows[a].date = rows[b].date

(***************************************************************************)
(* Vocabulary of the date texts: the separators of a text cut it into      *)
(* parts; a part is a numeral when it is digits with whitespace around.    *)
(***************************************************************************)
Separators(text) == {i \in DOMAIN text : text[i] \in {"/", "."}}

Cuts(text) == {0, Len(text) + 1} \cup Separators(text)

\* the parts, each as the pair of cuts around it; an empty part has b = a + 1
PartsOf(text) ==
    {<<a, b>> \in Cuts(text) \X Cuts(text) :
        a < b /\ \A c \in Cuts(text) : ~(a < c /\ c < b)}

NonEmptyPartsOf(text) == {p \in PartsOf(text) : p[2] > p[1] + 1}

\* the k-th of a set of parts, from the left
PartNo(parts, k) == CHOOSE p \in parts : Cardinality({q \in parts : q[1] < p[1]}) = k - 1

Inked(text, p) == {i \in (p[1] + 1) .. (p[2] - 1) : text[i] \notin Whitespace}

IsNumeral(text, p) ==
    /\ Inked(text, p) # {}
    /\ \A i \in (p[1] + 1) .. (p[2] - 1) :
          \/ text[i] \in Digits
          \/ text[i] \in Whitespace /\ (\A j \in Inked(text, p) : j < i) 
          \/ text[i] \in Whitespace /\ (\A j \in Inked(text, p) : j > i)

RECURSIVE NumberAt(_, _)
NumberAt(text, I) ==
    IF I = {} THEN 0
    ELSE LET last == CHOOSE i \in I : \A j \in I : j <= i
         IN  10 * NumberAt(text, I \ {last}) + DigitValue(text[last])

Numeral(text, p) == NumberAt(text, Inked(text, p))

IsCalendarDate(y, m, d) ==
    /\ y \in 1..9999
    /\ m \in 1..12
    /\ d >= 1
    /\ d <= (IF m \in {1, 3, 5, 7, 8, 10, 12} THEN 31
             ELSE IF m # 2 THEN 30
             ELSE IF (y % 4 = 0 /\ y % 100 # 0) \/ y % 400 = 0 THEN 29 ELSE 28)

RaisedValueError == ret.kind = "raise" /\ ret.error = "ValueError"

DateOfParts(text, parts) ==
    <<Numeral(text, PartNo(parts, 1)) + 1911,
      Numeral(text, PartNo(parts, 2)),
      Numeral(text, PartNo(parts, 3))>>

HeaderOf(grid) == IF grid[1] = BlankRow THEN grid[2] ELSE grid[1]

Carries(header, label) == \E i \in DOMAIN header : normalize_header(header[i]) = label

ColumnOf(header, label) ==
    (CHOOSE i \in DOMAIN header :
        /\ normalize_header(header[i]) = label
        /\ \A j \in 1..(i - 1) : normalize_header(header[j]) # label) - 1

HasRequired(header) == \A label \in {CodeLabel, NameLabel, InfoLabel} : Carries(header, label)

\* the call returned exactly the data row, its date read from column c
ReadDateFrom(c) ==
    /\ ret.kind = "return"
    /\ Len(ret.value) = 1
    /\ ret.value[1].date = <<1912, 1, c + 1>>

MissingColumns ==
    /\ ret.kind = "raise"
    /\ ret.message \in {"Missing required columns", "Missing required CSV columns"}

(***************************************************************************)
(* C20  Date column resolution: when the header row carries the primary    *)
(* date label at any column, column 0 included, both parsers read the date *)
(* from that column; only when the primary label is absent do they read    *)
(* the secondary label's column; and the missing-columns error is raised   *)
(* only when neither date label, or one of the three other required        *)
(* labels, is absent from the header.                                      *)
(***************************************************************************)
C20_DateColumnResolution ==
    (fn \in {"_parse_table_rows", "_parse_csv"} /\ ret # Pending) =>
        LET header == HeaderOf(arg.rows)
        IN  /\ (HasRequired(header) /\ Carries(header, DateLabel))
                   => ReadDateFrom(ColumnOf(header, DateLabel))
            /\ (HasRequired(header) /\ ~Carries(header, DateLabel) /\ Carries(header, AnnDateLabel))
                   => ReadDateFrom(ColumnOf(header, AnnDateLabel))
            /\ MissingColumns
                   => \/ ~HasRequired(header)
                      \/ (~Carries(header, DateLabel) /\ ~Carries(header, AnnDateLabel))

(***************************************************************************)
(* Vocabulary of the table claims, stated over the cells of a table: its   *)
(* header row is the first row whose cells carry the three required        *)
(* labels; the table is suitable when it has one and that row also carries *)
(* a date label.                                                           *)
(***************************************************************************)
LabelsOf(row) == {normalize_header(row[i].text) : i \in DOMAIN row}

HeaderRows(table) == {r \in DOMAIN table : {CodeLabel, NameLabel, InfoLabel} \subseteq LabelsOf(table[r])}

HeaderRowNo(table) == CHOOSE r \in HeaderRows(table) : \A q \in HeaderRows(table) : r <= q

Suitable(table) ==
    /\ HeaderRows(table) # {}
    /\ LabelsOf(table[HeaderRowNo(table)]) \cap {DateLabel, AnnDateLabel} # {}

SuitableNos(tables) == {i \in DOMAIN tables : Suitable(tables[i])}

FirstSuitable(tables) == tables[CHOOSE i \in SuitableNos(tables) : \A j \in SuitableNos(tables) : i <= j]

CodeTexts == {<<"1">>, <<"2">>, <<"3">>, <<"4">>, <<"5">>, <<"6">>, <<"7">>}

\* the security codes in the data rows of a table
CodesIn(table) ==
    UNION {{table[r][i].text : i \in DOMAIN table[r]} :
               r \in {q \in DOMAIN table : q > HeaderRowNo(table)}} \cap CodeTexts

DataRowCount(table) == Len(table) - HeaderRowNo(table)

\* the call returned the notice rows of this table, one per data row
ReturnedRowsOf(table) ==
    /\ ret.kind = "return"
    /\ Len(ret.value) = DataRowCount(table)
    /\ {ret.value[i].code : i \in DOMAIN ret.value} = CodesIn(table)

(***************************************************************************)
(* C16  parse_html returns the notice rows of the first recorded table, in *)
(* document order, that has a header row and all required columns, and     *)
(* skips the tables before it; it raises "No suitable HTML table found"    *)
(* exactly when no recorded table has both; a table with a header and no   *)
(* data row is a success and gives the empty list.                         *)
(***************************************************************************)
C16_FirstSuitableTable ==
    (fn = "parse_html" /\ ret # Pending) =>
        IF SuitableNos(arg.tables) = {}
        THEN ret = Raised("ValueError", "No suitable HTML table found")
        ELSE ReturnedRowsOf(FirstSuitable(arg.tables))

(***************************************************************************)
(* Vocabulary of the span claim, over the table of the call and the grid   *)
(* it returned.                                                            *)
(***************************************************************************)
\* the columns, counted from 1, where the grid row shows the text
ColumnsOf(gridrow, text) == {c \in DOMAIN gridrow : gridrow[c] = text}

\* the texts of the cells of the rows above row r
TextsAbove(table, r) == UNION {{table[q][i].text : i \in DOMAIN table[q]} : q \in 1..(r - 1)}

\* the cells of a row as the row states them: the text, then an empty
\* entry for each further column the cell is wide
RECURSIVE OwnEntries(_, _)
OwnEntries(row, i) ==
    IF i > Len(row) THEN <<>>
    ELSE <<row[i].text>> \o [k \in 1..(row[i].colspan - 1) |-> <<>>] \o OwnEntries(row, i + 1)

\* the cell i of row r, n rows tall, shows in the n - 1 rows below it, at
\* its own column, and nowhere further down
ShowsBelow(table, grid, r, i) ==
    LET text == table[r][i].text
        n    == table[r][i].rowspan
        c    == CHOOSE col \in ColumnsOf(grid[r], text) : TRUE
    IN  /\ ColumnsOf(grid[r], text) # {}
        /\ \A q \in (r + 1)..Len(grid) :
               ColumnsOf(grid[q], text) = IF q <= r + n - 1 THEN {c} ELSE {}

(***************************************************************************)
(* C17  Span expansion correctness: a cell of _expand_table's table that   *)
(* declares rowspan n >= 2 at grid column c appears with its text          *)
(* unchanged at column c in each of the n - 1 rows below it and in no      *)
(* later row, and changes the content of no other column: what a row shows *)
(* apart from the carried texts is its own cells, in order.                *)
(***************************************************************************)
C17_SpanExpansion ==
    (fn = "_expand_table" /\ ret # Pending) =>
        /\ Len(ret.value) = Len(arg)
        /\ \A r \in DOMAIN arg : \A i \in DOMAIN arg[r] :
               arg[r][i].rowspan >= 2 => ShowsBelow(arg, ret.value, r, i)
        /\ \A r \in DOMAIN arg :
               SelectSeq(ret.value[r], LAMBDA text : text \notin TextsAbove(arg, r))
                   = OwnEntries(arg[r], 1)

(***************************************************************************)
(* Vocabulary of the run claim, over the source outcomes the run was       *)
(* given: a venue is down when both its formats failed; it yields the rows *)
(* of its first format that did not fail.                                  *)
(***************************************************************************)
Down(csv_outcome, html_outcome) == csv_outcome = Failed /\ html_outcome = Failed

Yield(csv_outcome, html_outcome) ==
    IF csv_outcome # Failed THEN csv_outcome.value
    ELSE IF html_outcome # Failed THEN html_outcome.value
    ELSE <<>>

TseYield == Yield(arg.tse_csv, arg.tse_html)

OtcYield == Yield(arg.otc_csv, arg.otc_html)

HasFetched == loc.at \in {"fetched", "classified", "written"}

NoDataReported == "No data fetched from either market." \in SeqRange(loc.err)

\* the run kept the rows and the warnings and, once over, has classified
\* and written the report
CarriedOn(venue_rows, failed_venue) ==
    /\ loc.rows = venue_rows
    /\ {<<failed_venue, "CSV">>, <<failed_venue, "HTML">>} \subseteq SeqRange(loc.warnings)
    /\ ~NoDataReported
    /\ loc.at \in {"classified", "written"} => pc = "done"
    /\ ret # Pending => (ret = Returned(0) /\ loc.written /\ pc = "done")

(***************************************************************************)
(* C19  CLI run outcome: when one venue fails in every format and the      *)
(* other yields rows, the run is not aborted: fetch_all returns the rows   *)
(* of the venue that succeeded with the warnings of the venue that failed, *)
(* and the CLI goes on to classification; the CLI reports "No data fetched *)
(* from either market" (exit code 1, no report written) exactly when the   *)
(* combined row list of both venues is empty.                              *)
(***************************************************************************)
C19_RunOutcome ==
    (fn = "main") =>
        /\ (HasFetched /\ Down(arg.tse_csv, arg.tse_html) /\ OtcYield # <<>>)
               => CarriedOn(OtcYield, "TSE")
        /\ (HasFetched /\ Down(arg.otc_csv, arg.otc_html) /\ TseYield # <<>>)
               => CarriedOn(TseYield, "OTC")
        /\ ret # Pending => (NoDataReported <=> (HasFetched /\ TseYield \o OtcYield = <<>>))
        /\ NoDataReported => (ret = Returned(1) /\ ~loc.written)

\* one venue down, the other through its second format, and the run over
C19_Witness ==
    /\ fn = "main"
    /\ Down(arg.tse_csv, arg.tse_html)
    /\ arg.otc_csv = Failed
    /\ OtcYield # <<>>
    /\ ret = Returned(0)
    /\ loc.written
    /\ loc.report_rows # <<>>

(***************************************************************************)
(* Vocabulary of the row claims, over the grid of the call: the rows after *)
(* the header row, the cell a column index reads, and what makes a row     *)
(* worth a notice.                                                         *)
(***************************************************************************)
InLoopOrOver == fn = "_parse_table_rows" /\ loc.at = "loop"

RequiredIndices == {loc.code_idx, loc.name_idx, loc.info_idx, loc.date_idx}

LongEnough(row) == \A c \in RequiredIndices : c + 1 \in DOMAIN row

HasCode(row) == clean_cell(row[loc.code_idx + 1]) # <<>>

HasDate(row) == parse_roc_date(clean_cell(row[loc.date_idx + 1])).kind = "return"

Valid(row) == LongEnough(row) /\ HasCode(row) /\ HasDate(row)

NoticeOf(row) ==
    [market |-> arg.market,
     code   |-> clean_cell(row[loc.code_idx + 1]),
     name   |-> clean_cell(row[loc.name_idx + 1]),
     date   |-> parse_roc_date(clean_cell(row[loc.date_idx + 1])).value,
     info   |-> clean_text(row[loc.info_idx + 1])]

\* the notices of the valid rows among rows first..last, in source order
RECURSIVE NoticesOf(_, _)
NoticesOf(first, last) ==
    IF first > last THEN <<>>
    ELSE (IF Valid(arg.rows[first]) THEN <<NoticeOf(arg.rows[first])>> ELSE <<>>)
         \o NoticesOf(first + 1, last)

Stripped(text) == SelectSeq(text, LAMBDA ch : ch \notin {" ", "TAB", "CR", "LF", "NBSP", "IDSP"})

CarriesLabels(row) ==
    \A label \in {CodeLabel, NameLabel, InfoLabel} : \E i \in DOMAIN row : Stripped(row[i]) = label

LabelRows(grid) == {r \in DOMAIN grid : CarriesLabels(grid[r])}

FirstLabelRow(grid) == CHOOSE r \in LabelRows(grid) : \A q \in LabelRows(grid) : r <= q

\* the notice shows a code and a date that some row after row h holds
FromRowAfter(notice, grid, h) ==
    \E r \in (h + 1)..Len(grid) :
        /\ \E i \in DOMAIN grid[r] : clean_cell(grid[r][i]) = notice.code
        /\ \E j \in DOMAIN grid[r] : parse_roc_date(clean_cell(grid[r][j])) = Returned(notice.date)

(***************************************************************************)
(* C22  Header row location: the header row is the first row whose set of  *)
(* whitespace-stripped cell texts holds the three labels, whatever the     *)
(* column order and the extra columns; there is none, and the call fails   *)
(* with "Unable to locate header row", exactly when no row holds them; the *)
(* rows before the header row are never emitted as data.                   *)
(***************************************************************************)
C22_HeaderRowLocation ==
    (fn = "_parse_table_rows") =>
        /\ find_header_row(arg.rows) =
               IF LabelRows(arg.rows) = {} THEN NoneIndex ELSE FirstLabelRow(arg.rows) - 1
        /\ loc.at # "start" => (/\ LabelRows(arg.rows) # {}
                                /\ loc.header_idx = FirstLabelRow(arg.rows) - 1)
        /\ ret # Pending =>
               (ret = Raised("ValueError", "Unable to locate header row")
                    <=> LabelRows(arg.rows) = {})
        /\ Len(loc.parsed) <= Len(arg.rows) - (loc.header_idx + 1)
        /\ \A k \in DOMAIN loc.parsed :
               FromRowAfter(loc.parsed[k], arg.rows, FirstLabelRow(arg.rows))

\* a data row above a header row in another column order, a second header
\* row below it, and the call over with nothing emitted from above
C22_Witness ==
    /\ fn = "_parse_table_rows"
    /\ arg.rows = <<GoodRowInOrderB, HeaderRowB, HeaderRowA>>
    /\ loc.header_idx = 1
    /\ ret = Returned(<<>>)

(***************************************************************************)
(* C27  The delimited-text path and the HTML-grid path apply the same      *)
(* logic: on the same venue and the same grid of cell strings, _parse_csv  *)
(* and _parse_table_rows either both fail with ValueError or both return   *)
(* the same sequence of notice rows; the all-blank rows the CSV path drops *)
(* up front do not change the outcome.                                     *)
(***************************************************************************)
C27_PathsAgree ==
    (fn = "_parse_csv, _parse_table_rows" /\ loc.csv # Pending /\ loc.table # Pending) =>
        \/ /\ loc.csv.kind = "raise"
           /\ loc.table.kind = "raise"
           /\ loc.csv.error = "ValueError"
           /\ loc.table.error = "ValueError"
        \/ /\ loc.csv.kind = "return"
           /\ loc.table.kind = "return"
           /\ loc.csv.value = loc.table.value

\* a blank row above the header row, kept by one path and dropped by the other
C27_Witness ==
    /\ fn = "_parse_csv, _parse_table_rows"
    /\ arg.rows = <<BlankRow, HeaderRowA, GoodRowB>>
    /\ loc.csv # Pending
    /\ loc.table # Pending
    /\ loc.csv.kind = "return"
    /\ Len(loc.table.value) = 1

(***************************************************************************)
(* C28  Format fallback per venue: the CSV attempt is always made first;   *)
(* the HTML attempt is made exactly when the CSV attempt raised; a CSV     *)
(* success, even with no row, returns its rows with no warning; a CSV      *)
(* failure followed by an HTML success returns the HTML rows with exactly  *)
(* one warning, the CSV failure; two failures return an empty row list     *)
(* with exactly two warnings, CSV then HTML; no exception escapes.         *)
(***************************************************************************)
C28_FormatFallback ==
    (fn = "_fetch_market") =>
        /\ loc.calls \in {<<>>, <<"CSV">>, <<"CSV", "HTML">>}
        /\ "HTML" \in SeqRange(loc.calls) => arg.csv_fetch.kind = "raise"
        /\ ret # Pending =>
               /\ ret.kind = "return"
               /\ (loc.calls = <<"CSV", "HTML">>) <=> (arg.csv_fetch.kind = "raise")
               /\ arg.csv_fetch.kind = "return"
                      => ret.value = [rows |-> arg.csv_fetch.value, warnings |-> <<>>]
               /\ (arg.csv_fetch.kind = "raise" /\ arg.html_fetch.kind = "return")
                      => ret.value = [rows |-> arg.html_fetch.value,
                                      warnings |-> <<<<arg.name, "CSV">>>>]
               /\ (arg.csv_fetch.kind = "raise" /\ arg.html_fetch.kind = "raise")
                      => ret.value = [rows |-> <<>>,
                                      warnings |-> <<<<arg.name, "CSV">>, <<arg.name, "HTML">>>>]

\* both attempts made and both failed
C28_Witness ==
    /\ fn = "_fetch_market"
    /\ arg.csv_fetch.kind = "raise"
    /\ arg.html_fetch.kind = "raise"
    /\ loc.calls = <<"CSV", "HTML">>
    /\ ret # Pending

(***************************************************************************)
(* C25  Rows outside the recency window do not count but do set the        *)
(* display date: the last_date of a result is the latest date over all the *)
(* rows of its group, inside the window or not, while the three-strikes    *)
(* and the clause 9-13 rules count only the rows dated inside the window   *)
(* of the six most recent distinct dates of the whole input.               *)
(***************************************************************************)
LatestOfGroup(k) == CHOOSE d \in {rows[i].date : i \in RowsOfKey(k)} :
                        \A i \in RowsOfKey(k) : ~DateLT(d, rows[i].date)

C25_WindowCountsLatestShows ==
    Done =>
        /\ \A j \in DOMAIN results :
              LET k == ResultKey(results[j])
              IN  /\ results[j].last_date = LatestOfGroup(k)
                  /\ HasReason(k, "three-strikes-in-six-days")
                         => Cardinality(InWindowRows(k)) >= 3
                  /\ results[j].uncertain_type = "tse-clause-9-13"
                         => Cardinality(InWindowRows(k)) >= 3
        /\ \A k \in KeysIn :
              (k[1] = "OTC" /\ Cardinality(InWindowRows(k)) < 3) => ResultsOfKey(k) = {}

\* a result whose group has no row inside the window: its last_date is the
\* date of a row outside it, the later of two
C25_Witness ==
    /\ Done
    /\ \E j \in DOMAIN results :
          LET k == ResultKey(results[j])
          IN  /\ InWindowRows(k) = {}
              /\ Cardinality({rows[i].date : i \in RowsOfKey(k)}) >= 2
              /\ results[j].last_date \notin RecencyWindow

(***************************************************************************)
(* C29  Every Primary-venue result has last_date equal to the primary-     *)
(* latest date, the latest date over all the TSE rows of the input, and    *)
(* its group has a row on that date that mentions a clause 1 to 8; a TSE   *)
(* group with no row on the primary-latest date is never emitted, whatever *)
(* its count, its clause 9-13 rows or its ledger entries.                  *)
(***************************************************************************)
HasRowOnPrimaryLatest(k) == \E i \in RowsOfKey(k) : IsPrimaryLatest(rows[i].date)

PrimaryLatestDate ==
    IF \E d \in AllDates : IsPrimaryLatest(d)
    THEN CHOOSE d \in AllDates : IsPrimaryLatest(d)
    ELSE NoneDate

\* the group of a key on its own: its rows in input order
GroupAlone(k) ==
    [key |-> k, items |-> SelectSeq(rows, LAMBDA r : r.market = k[1] /\ r.code = k[2])]

LedgerOfCode(code) == SelectSeq(records, LAMBDA r : r.code = code)

\* what the evaluation of the group of k alone gives
ResultAlone(k) ==
    group_results(GroupAlone(k), RecencyWindow, PrimaryLatestDate, LedgerOfCode(k[2]), ref_date)

\* the results of a key, in the order of "results"
ResultsSeqOfKey(k) == SelectSeq(results, LAMBDA r : r.market = k[1] /\ r.code = k[2])

\* the orders in which the groups can be evaluated
GroupOrders ==
    {f \in [1 .. Cardinality(KeysIn) -> KeysIn] : \A a, b \in DOMAIN f : a # b => f[a] # f[b]}

EvaluatedIn(order) ==
    SeqRange(loop_results([n \in DOMAIN order |-> GroupAlone(order[n])],
                          RecencyWindow, PrimaryLatestDate, records, ref_date))

C26_NoOrderingDependency ==
    Done =>
        /\ \A k \in KeysIn : ResultsSeqOfKey(k) = ResultAlone(k)
        /\ \A order \in GroupOrders : EvaluatedIn(order) = SeqRange(results)

\* three groups, one emitted and one not, with a ledger that holds entries of
\* another code than the emitted group's
C26_Witness ==
    /\ Done
    /\ Cardinality(KeysIn) >= 3
    /\ \E j \in DOMAIN results : LedgerOfCode(results[j].code) # records
    /\ \E k \in KeysIn : ResultsOfKey(k) = {} /\ ~is_warrant(k[2])

(***************************************************************************)
(* C24  _expand_table produces a rectangular grid equivalent to the        *)
(* rendered table: the pending carried cells of a row stand at their       *)
(* column positions, a cell with colspan k shows its text in its first     *)
(* column and the empty text in its k-1 next columns, and for a table      *)
(* whose rendered layout has W columns in every row, every expanded row    *)
(* has exactly W entries, entry i holding the content of rendered column   *)
(* i.                                                                       *)
(***************************************************************************)
\* a placed cell covers the slots of rows row .. row+rs-1, columns col .. col+cs-1
Covers(p, r, c) == p.row <= r /\ r < p.row + p.rs /\ p.col <= c /\ c < p.col + p.cs

Covered(P, r, c) == \E p \in P : Covers(p, r, c)

LastColumn(P) ==
    IF P = {} THEN 0
    ELSE CHOOSE e \in {p.col + p.cs - 1 : p \in P} : \A p \in P : p.col + p.cs - 1 <= e

\* the first column from c on that no placed cell covers in row r
FirstFree(P, r, c) ==
    CHOOSE f \in c .. (LastColumn(P) + c + 1) :
        ~Covered(P, r, f) /\ \A g \in c .. (f - 1) : Covered(P, r, g)

\* the cells of row r from the i-th on take the free slots from column c on
RECURSIVE PlacedRow(_, _, _, _, _)
PlacedRow(P, table, r, i, c) ==
    IF i > Len(table[r]) THEN P
    ELSE LET f == FirstFree(P, r, c)
             p == [row |-> r, col |-> f, rs |-> or_one(table[r][i].rowspan),
                   cs |-> or_one(table[r][i].colspan), text |-> table[r][i].text]
         IN  PlacedRow(P \cup {p}, table, r, i + 1, f + p.cs)

\* the rendered layout of the first r rows
RECURSIVE Layout(_, _)
Layout(table, r) ==
    IF r = 0 THEN {} ELSE PlacedRow(Layout(table, r - 1), table, r, 1, 1)

Rendered(table) == Layout(table, Len(table))

\* every row of the rendered layout has the columns 1 .. W, each slot under one cell
RendersWith(table, W) ==
    LET P == Rendered(table)
    IN  \A r \in DOMAIN table :
           /\ \A c \in 1 .. W : Cardinality({p \in P : Covers(p, r, c)}) = 1
           /\ \A c \in (W + 1) .. (LastColumn(P) + 1) : ~Covered(P, r, c)

\* the text of the cell over the slot in its first column, the empty text in
\* the columns its horizontal span pads
ContentAt(P, r, c) ==
    LET p == CHOOSE q \in P : Covers(q, r, c)
    IN  IF c = p.col THEN p.text ELSE <<>>

Widths(table) == 1 .. (LastColumn(Rendered(table)) + 1)

C24_RectangularGrid ==
    (fn = "_expand_table" /\ ret # Pending) =>
        \A W \in Widths(arg) :
            RendersWith(arg, W) =>
                /\ Len(ret.value) = Len(arg)
                /\ \A r \in DOMAIN arg :
                      ret.value[r] = [c \in 1 .. W |-> ContentAt(Rendered(arg), r, c)]

(***************************************************************************)
(* C23  Nested tables are ignored: only the tr, td and th tags seen while  *)
(* the table nesting depth is exactly 1 create the rows and cells of a     *)
(* recorded table; the tags and the text of a table nested at depth 2 or   *)
(* more add no row and no cell and do not alter the text of any depth-1    *)
(* cell, and after the nested table closes the enclosing depth-1 row goes  *)
(* on collecting its cells.  The recorded tables are those of the same     *)
(* events without the events of the nested tables.                          *)
(***************************************************************************)
IsStartOf(event, tag) == event.kind = "start" /\ event.tag = tag

IsEndOf(event, tag) == event.kind = "end" /\ event.tag = tag

\* the number of tables open after the first n events
RECURSIVE OpenTables(_, _)
OpenTables(events, n) ==
    IF n = 0 THEN 0
    ELSE LET before == OpenTables(events, n - 1)
         IN  IF IsStartOf(events[n], "table") THEN before + 1
             ELSE IF IsEndOf(events[n], "table") /\ before > 0 THEN before - 1
             ELSE before

\* event n belongs to a nested table: it comes inside one, or opens one
InNested(events, n) ==
    \/ OpenTables(events, n - 1) >= 2
    \/ OpenTables(events, n - 1) = 1 /\ IsStartOf(events[n], "table")

RECURSIVE OuterOnly(_)
OuterOnly(events) ==
    IF events = <<>> THEN <<>>
    ELSE LET n == Len(events)
             init == OuterOnly(SubSeq(events, 1, n - 1))
         IN  IF InNested(events, n) THEN init ELSE Append(init, events[n])

C23_NestedTablesIgnored ==
    (fn = "_HTMLTableParser.feed" /\ ret # Pending) =>
        ret.value = fed(OuterOnly(arg)).tables

(***************************************************************************)
(* C30  The automatic saving of the ledger is idempotent: a record is      *)
(* appended only when no line of the ledger holds the same (code,          *)
(* earnings_month, announcement_date) at that moment, so a triple met      *)
(* twice in one fetched batch is appended once; a second pass over the     *)
(* same fetched rows appends nothing; and the lines the ledger holds are   *)
(* never removed or rewritten.                                              *)
(***************************************************************************)
TripleOf(line) == <<line.code, line.earnings_month, strptime_Ymd(line.announcement_date)>>

TriplesIn(file) == {TripleOf(file.lines[k]) : k \in DOMAIN file.lines}

AppendsNew(before, after) ==
    /\ Len(after.lines) = Len(before.lines) + 1
    /\ SubSeq(after.lines, 1, Len(before.lines)) = before.lines
    /\ TripleOf(after.lines[Len(after.lines)]) \notin TriplesIn(before)

AutoSaveStep ==
    /\ loc'.file.lines = loc.file.lines \/ AppendsNew(loc.file, loc'.file)
    /\ loc.run = 2 => loc'.file = loc.file

C30_AutoSaveIdempotent == [][fn = "main (auto-save)" => AutoSaveStep]_vars

====
